---------------------------- MODULE Spec2Model ----------------------------
(***************************************************************************)
(* A model of the NNUE evaluation core of HypnoS: the evaluation blender   *)
(* (Eval::evaluate), the HalfKAv2_hm feature indexing with the accumulator *)
(* update contract, the parameter store (load_eval / save_eval) and the    *)
(* reload of a network while search workers run.                           *)
(*                                                                         *)
(* Each part has its own specification over the shared variables:          *)
(*   SpecEval   one call of Eval::evaluate on inputs drawn by Init         *)
(*   SpecCalls  successive calls of Eval::evaluate while the collaborators *)
(*              change the board, the optimism, the options, the network   *)
(***************************************************************************)
EXTENDS Integers, Sequences, FiniteSets, Bags, TLC

VARIABLES
    pos,        \* Position: pawns/nonPawnMaterial/pieceCount per colour, sideToMove, rule50
    optimism,   \* Thread::optimism[COLOR_NB] of pos.this_thread()
    network,    \* the loaded parameters of each net size, by their per-bucket outputs
    MaterialisticEvaluationStrategy,  \* NNUE::MaterialisticEvaluationStrategy
    PositionalEvaluationStrategy,     \* NNUE::PositionalEvaluationStrategy
    last,       \* the most recent call of Eval::evaluate since its inputs last changed
    prev,       \* an earlier call of Eval::evaluate, kept for comparison
    board,      \* Position::board[SQUARE_NB]
    sideToMove, \* Position::sideToMove
    st,         \* the chain of StateInfo from the root to Position::st (the last)
    updated,    \* how the last accumulator update computed each perspective
    featureTransformer, \* featureTransformerBig / Small: the parameters, <<>> when null
    networkLayers,      \* networkBig / networkSmall [LayerStacks], <<>> when null
    fileName,           \* NNUE::fileName[2]
    netDescription,     \* NNUE::netDescription[2]
    origin,     \* per net size: did the last load_eval succeed, and from which stream
    lastLoad,   \* the last call of load_eval, with the store it found
    saved,      \* the last call of save_eval, with the stream it wrote
    loads,      \* number of load_eval calls so far
    uci,        \* where the thread of main() / UCI::loop stands
    searching,  \* Thread::searching of each search thread
    workerPc,   \* where each search thread stands: idle, in search, in evaluate
    storage,    \* per net size: are the tables null, ready, or being replaced
    currentEvalFileName,  \* Eval::currentEvalFileName[2]
    optionEvalFile,       \* Options["EvalFile"]
    everLoaded, \* per net size: has a load_eval of NNUE::init returned true
    loadedFrom, \* per net size: the file whose parameters the tables hold
    initLog,    \* the calls of load_eval made by the running or last NNUE::init
    searches,    \* number of "go" commands so far
    tableFilled,  \* has Features::init filled FeatureIndexTable
    probe,  \* the arguments of the index computation under study
    indexValue,  \* what the last index computation returned
    terminated,  \* has NNUE::verify called exit
    lastVerify,  \* the last call of NNUE::verify, with the names it compared
    host,  \* byte order of the machine the engine was compiled for
    intType,  \* IntType of the call: its size in bytes and its signedness
    values,  \* the integers handed to write_little_endian
    written,  \* the bytes write_little_endian put on the stream, <<>> before
    readBack,  \* what read_little_endian returned from those bytes
    build,  \* is the build one with NDEBUG, in which assert is compiled out
    lebStream,  \* the stream handed to read_leb_128
    lebGarbage,  \* the byte found in memory that was never written
    lebResult,  \* what the last decode left: outcome, stream, out
    buildPath,  \* the instruction set the build was compiled for
    reluInput,  \* the input array of ClippedReLU::propagate
    reluOutput,  \* the output array after propagate, empty before
    tracePos,  \* the position handed to Eval::trace: board, pieceCount, checkers
    traceThread,  \* pos.this_thread(): bestValue, rootSimpleEval, optimism
    traceComputed,  \* accumulatorBig.computed of the current state, per perspective
    traceAt,  \* where Eval::trace is: phase, loop index, removed piece, buckets used
    traceEntry,  \* the position and thread state when Eval::trace was entered
    blendIn,  \* the values the blend of Eval::evaluate works on: optimism, complexity, simpleEval, nnue
    blendOut,  \* the adjusted optimism and network value, done FALSE before
    dampIn,  \* a value before the damping and a rule50 counter
    dampOut,  \* the damped value, done FALSE before
    hinted,  \* the net sizes whose accumulator hint_common_parent_position prepared, empty before
    lebType,  \* the bits of IntType of the write_leb_128 and read_leb_128 calls
    lebValues,  \* the array handed to write_leb_128
    lebWritten,  \* what write_leb_128 put on the stream
    lebBack,  \* what read_leb_128 made of the written stream
    activePos,  \* the perspective and the board handed to append_active_indices
    activeList  \* the IndexList append_active_indices filled

evalVars == <<pos, optimism, network, MaterialisticEvaluationStrategy,
              PositionalEvaluationStrategy, last, prev>>

featVars == <<board, sideToMove, st, updated>>

loadVars == <<featureTransformer, networkLayers, fileName, netDescription,
              origin, lastLoad, saved, loads>>

concVars == <<uci, searching, workerPc, storage, currentEvalFileName,
              optionEvalFile, everLoaded, loadedFrom, initLog,
              searches>>

indexVars == <<tableFilled, probe, indexValue>>

verifyVars == <<terminated, lastVerify>>

bytesVars == <<host, intType, values, written, readBack>>

lebVars == <<build, lebStream, lebGarbage, lebResult>>

reluVars == <<buildPath, reluInput, reluOutput>>

traceVars == <<tracePos, traceThread, traceComputed, traceAt, traceEntry>>

arithVars == <<blendIn, blendOut, dampIn, dampOut>>

hintVars == <<hinted>>

roundVars == <<lebType, lebValues, lebWritten, lebBack>>

activeVars == <<activePos, activeList>>

nonEvalVars == <<featVars, loadVars, concVars, indexVars, verifyVars, bytesVars, lebVars, reluVars, traceVars, arithVars, hintVars, roundVars, activeVars>>
nonFeatVars == <<evalVars, loadVars, concVars, indexVars, verifyVars, bytesVars, lebVars, reluVars, traceVars, arithVars, hintVars, roundVars, activeVars>>
nonLoadVars == <<evalVars, featVars, concVars, indexVars, verifyVars, bytesVars, lebVars, reluVars, traceVars, arithVars, hintVars, roundVars, activeVars>>
nonConcVars == <<evalVars, featVars, loadVars, indexVars, verifyVars, bytesVars, lebVars, reluVars, traceVars, arithVars, hintVars, roundVars, activeVars>>
nonIndexVars == <<evalVars, featVars, loadVars, concVars, verifyVars, bytesVars, lebVars, reluVars, traceVars, arithVars, hintVars, roundVars, activeVars>>
nonVerifyVars == <<evalVars, featVars, loadVars, concVars, indexVars, bytesVars, lebVars, reluVars, traceVars, arithVars, hintVars, roundVars, activeVars>>
nonBytesVars == <<evalVars, featVars, loadVars, concVars, indexVars, verifyVars, lebVars, reluVars, traceVars, arithVars, hintVars, roundVars, activeVars>>
nonLebVars == <<evalVars, featVars, loadVars, concVars, indexVars, verifyVars, bytesVars, reluVars, traceVars, arithVars, hintVars, roundVars, activeVars>>
nonReluVars == <<evalVars, featVars, loadVars, concVars, indexVars, verifyVars, bytesVars, lebVars, traceVars, arithVars, hintVars, roundVars, activeVars>>
nonTraceVars == <<evalVars, featVars, loadVars, concVars, indexVars, verifyVars, bytesVars, lebVars, reluVars, arithVars, hintVars, roundVars, activeVars>>
nonArithVars == <<evalVars, featVars, loadVars, concVars, indexVars, verifyVars, bytesVars, lebVars, reluVars, traceVars, hintVars, roundVars, activeVars>>
nonHintVars == <<evalVars, featVars, loadVars, concVars, indexVars, verifyVars, bytesVars, lebVars, reluVars, traceVars, arithVars, roundVars, activeVars>>
nonRoundVars == <<evalVars, featVars, loadVars, concVars, indexVars, verifyVars, bytesVars, lebVars, reluVars, traceVars, arithVars, hintVars, activeVars>>
nonActiveVars == <<evalVars, featVars, loadVars, concVars, indexVars, verifyVars, bytesVars, lebVars, reluVars, traceVars, arithVars, hintVars, roundVars>>

vars == <<evalVars, featVars, loadVars, concVars, indexVars, verifyVars, bytesVars, lebVars, reluVars, traceVars, arithVars, hintVars, roundVars, activeVars>>

---------------------------------------------------------------------------
(* Integer arithmetic of the C++ build.  Value and int are 32-bit signed;  *)
(* signed overflow is undefined behaviour, so an operation whose result    *)
(* does not fit is marked undefined and the caller takes any int for it.   *)

Abs(x) == IF x < 0 THEN -x ELSE x

\* C++ integer division truncates toward zero
TruncDiv(a, b) ==
    IF (a >= 0) = (b > 0) THEN Abs(a) \div Abs(b) ELSE -(Abs(a) \div Abs(b))

INT_MAX == 2147483647

Val(n) == [ub |-> FALSE, n |-> n]
Undef  == [ub |-> TRUE, n |-> 0]

AddFits(a, b) == IF b >= 0 THEN a <= INT_MAX - b ELSE a >= (-INT_MAX) - b
MulFits(a, b) == a = 0 \/ b = 0 \/ Abs(a) <= INT_MAX \div Abs(b)

CAdd(x, y) == IF x.ub \/ y.ub THEN Undef
              ELSE IF AddFits(x.n, y.n) THEN Val(x.n + y.n) ELSE Undef
CSub(x, y) == IF x.ub \/ y.ub THEN Undef
              ELSE IF AddFits(x.n, -y.n) THEN Val(x.n - y.n) ELSE Undef
CMul(x, y) == IF x.ub \/ y.ub THEN Undef
              ELSE IF MulFits(x.n, y.n) THEN Val(x.n * y.n) ELSE Undef
CDiv(x, d) == IF x.ub THEN Undef ELSE Val(TruncDiv(x.n, d))
CAbs(x)    == IF x.ub THEN Undef ELSE Val(Abs(x.n))

\* the ints an undefined computation is taken to leave behind
Int32Samples == {-INT_MAX, -31508, -31507, -1, 0, 1, 31507, 31508, INT_MAX}
Outcomes(x) == IF x.ub THEN Int32Samples ELSE {x.n}

---------------------------------------------------------------------------
(* types.h                                                                  *)

WHITE == 0
BLACK == 1
Colors == {WHITE, BLACK}
Other(c) == 1 - c            \* operator~(Color)

PawnValue == 208
VALUE_TB_WIN_IN_MAX_PLY  == 31508      \* VALUE_MATE - 2 * MAX_PLY
VALUE_TB_LOSS_IN_MAX_PLY == -VALUE_TB_WIN_IN_MAX_PLY

\* nnue_common.h
OutputScale == 16

\* nnue_architecture.h: the number of layer stacks (material buckets)
LayerStacks == 8
Buckets == 0 .. (LayerStacks - 1)

Big   == 0
Small == 1
NetSizes == {Big, Small}

---------------------------------------------------------------------------
(* Position accessors used by the evaluation                                *)

count_PAWN(p, c)        == p.pawns[c]
count_PAWN_all(p)       == p.pawns[WHITE] + p.pawns[BLACK]
non_pawn_material(p, c) == p.npm[c]
non_pawn_material_all(p) == p.npm[WHITE] + p.npm[BLACK]
count_ALL_PIECES(p)     == p.pieces[WHITE] + p.pieces[BLACK]

\* Eval::simple_eval
simple_eval(p, c) ==
    PawnValue * (count_PAWN(p, c) - count_PAWN(p, Other(c)))
      + (non_pawn_material(p, c) - non_pawn_material(p, Other(c)))

---------------------------------------------------------------------------
(* NNUE::evaluate<Net_Size>                                                 *)

bucket_of_count(p) == TruncDiv(count_ALL_PIECES(p), 4)

\* const int bucket = (pos.count<ALL_PIECES>() - 1) / 4
bucket_of(p) == TruncDiv(count_ALL_PIECES(p) - 1, 4)

\* featureTransformer->transform(pos, transformedFeatures, bucket): the psqt
\* output under the loaded parameters
transform(net, p) == network[net][bucket_of(p)].psqt

\* network[bucket]->propagate(transformedFeatures)
propagate(net, p) == network[net][bucket_of(p)].positional

delta == 24

nnue_evaluate(net, p, adjusted) ==
    LET psqt       == Val(transform(net, p))
        positional == Val(propagate(net, p))
        complexity == CDiv(CAbs(CSub(psqt, positional)), OutputScale)
        value ==
            IF adjusted
            THEN CDiv(
                   CAdd(CMul(Val(1024 - delta + MaterialisticEvaluationStrategy), psqt),
                        CMul(Val(1024 + delta + PositionalEvaluationStrategy), positional)),
                   1024 * OutputScale)
            ELSE CDiv(CAdd(psqt, positional), OutputScale)
    IN  [value |-> value, complexity |-> complexity]

---------------------------------------------------------------------------
(* Eval::evaluate                                                           *)

\* bool lazy = abs(simpleEval) > 2700
IsLazyGe(simpleEval) == Abs(simpleEval) >= 2700
IsLazy(simpleEval) == Abs(simpleEval) > 2700

\* bool smallNet = abs(simpleEval) > 1050
UseSmallNetGe(simpleEval) == Abs(simpleEval) >= 1050
UseSmallNet(simpleEval) == Abs(simpleEval) > 1050

\* Value optimism = pos.this_thread()->optimism[stm]
ThreadOptimismOther(stm) == optimism[Other(stm)]
ThreadOptimism(stm) == optimism[stm]

\* v = v * (200 - shuffling) / 214
DampNone(v, shuffling) == v
Damp(v, shuffling) == CDiv(CMul(v, Val(200 - shuffling)), 214)

\* std::clamp(v, lo, hi)
ClampNone(v, lo, hi) == v
Clamp(v, lo, hi) == IF v < lo THEN lo ELSE IF hi < v THEN hi ELSE v

\* nnueComplexity + abs(simpleEval - nnue)
blend_signal(complexity, simpleEval, nnue) ==
    CAdd(complexity, CAbs(CSub(Val(simpleEval), nnue)))

\* optimism += optimism * (nnueComplexity + abs(simpleEval - nnue)) / 512
adjust_optimism(opt0, signal) == CAdd(opt0, CDiv(CMul(opt0, signal), 512))

\* nnue -= nnue * (nnueComplexity + abs(simpleEval - nnue)) / 32768
adjust_nnue(nnue, signal) == CSub(nnue, CDiv(CMul(nnue, signal), 32768))

\* the network path of Eval::evaluate: the blend of nnue and optimism
Blend(p, stm, simpleEval) ==
    LET smallNet == UseSmallNet(simpleEval)
        net      == IF smallNet THEN Small ELSE Big
        nn       == nnue_evaluate(net, p, TRUE)
        nnue     == nn.value
        signal   == blend_signal(nn.complexity, simpleEval, nnue)
        opt0     == Val(ThreadOptimism(stm))
        opt1     == adjust_optimism(opt0, signal)
        nnue1    == adjust_nnue(nnue, signal)
        npm      == TruncDiv(non_pawn_material_all(p), 64)
        v        == CDiv(
                      CAdd(CMul(nnue1, Val(915 + npm + 9 * count_PAWN_all(p))),
                           CMul(opt1, Val(154 + npm))),
                      1024)
    IN  [v |-> v, nets |-> {net}]

\* Value Eval::evaluate(const Position& pos): the values the call can return,
\* each with the path taken, the networks run and the value before the clamp
evaluate(p) ==
    LET stm        == p.sideToMove
        shuffling  == p.rule50
        simpleEval == simple_eval(p, stm)
        lazy       == IsLazy(simpleEval)
        b          == IF lazy THEN [v |-> Val(simpleEval), nets |-> {}]
                              ELSE Blend(p, stm, simpleEval)
        damped     == Damp(b.v, shuffling)
    IN  { [ v         |-> Clamp(d, VALUE_TB_LOSS_IN_MAX_PLY + 1,
                                   VALUE_TB_WIN_IN_MAX_PLY - 1),
            lazy      |-> lazy,
            nets      |-> b.nets,
            unclamped |-> d,
            ub        |-> damped.ub ] : d \in Outcomes(damped) }

---------------------------------------------------------------------------
(* Inputs of the evaluation                                                 *)

\* One side's material: pawns, non-pawn material (st->nonPawnMaterial) and the
\* number of its pieces, king included.  (P, N, B, R, Q) counts in the comments.
Army(pawns, npm, pieces) == [pawns |-> pawns, npm |-> npm, pieces |-> pieces]

BareKing  == Army(0, 0, 1)
StartArmy == Army(8, 8302, 16)       \* (8, 2, 2, 2, 1)
OneQueen  == Army(0, 2538, 2)        \* (0, 0, 0, 0, 1)
MaxArmy   == Army(0, 28606, 16)      \* (0, 2, 2, 2, 9)
Army1050a == Army(0, 6726, 5)        \* (0, 0, 2, 0, 2)
Army1050b == Army(0, 5676, 7)        \* (0, 4, 0, 2, 0)
Army1051a == Army(0, 3124, 5)        \* (0, 4, 0, 0, 0)
Army1051b == Army(6, 825, 8)         \* (6, 0, 1, 0, 0)
Army2700a == Army(0, 5390, 6)        \* (0, 2, 0, 3, 0)
Army2700b == Army(5, 1650, 8)        \* (5, 0, 2, 0, 0)
Army2701a == Army(0, 3949, 6)        \* (0, 4, 1, 0, 0)
Army2701b == Army(6, 0, 7)           \* (6, 0, 0, 0, 0)

\* <<white army, black army>>; the material estimate of the side to move is
\* 0, 2538, 28606, 1050, 1051, 2700, 2701 for White and the opposite for Black
Matchups ==
    { <<StartArmy, StartArmy>>, <<OneQueen, BareKing>>, <<MaxArmy, BareKing>>,
      <<Army1050a, Army1050b>>, <<Army1051a, Army1051b>>,
      <<Army2700a, Army2700b>>, <<Army2701a, Army2701b>> }

MakePosition(m, stm, r50) ==
    [ pawns      |-> [c \in Colors |-> m[c + 1].pawns],
      npm        |-> [c \in Colors |-> m[c + 1].npm],
      pieces     |-> [c \in Colors |-> m[c + 1].pieces],
      sideToMove |-> stm,
      rule50     |-> r50 ]

\* the largest rule50 counter drawn
MaxRule50 == 100

Positions ==
    { MakePosition(m, stm, r50) : m \in Matchups, stm \in Colors, r50 \in 0 .. MaxRule50 }

\* loaded parameters, by the (psqt, positional) pair they yield in each bucket
NetOutput(psqt, positional) == [psqt |-> psqt, positional |-> positional]

ZeroNet   == [b \in Buckets |-> NetOutput(0, 0)]
QuietNet  == [b \in Buckets |-> NetOutput(1600 * (b + 1), -900 * b)]
SharpNet  == [b \in Buckets |-> NetOutput(-4000 - b, 2500)]
LoudNet   == [b \in Buckets |-> NetOutput(-400000 - b, -300000)]
HugeNet   == [b \in Buckets |-> NetOutput(2147483647, 2000000000 - b)]

\* <<Big, Small>> parameters loaded side by side
NetworkPairs ==
    { <<ZeroNet, ZeroNet>>, <<QuietNet, LoudNet>>, <<LoudNet, HugeNet>>,
      <<HugeNet, QuietNet>> }

OptimismValues == {-30000, 0, 120}

\* the values of the two strategy options (spin, -12 .. 12)
StrategyOptionValues == {-12, 0, 12}

NoCall ==
    [v |-> 0, lazy |-> FALSE, nets |-> {}, unclamped |-> 0, ub |-> FALSE, done |-> FALSE]

\* a remembered call: the value returned and the inputs it was made on
NoPrev == [done |-> FALSE]
Remembered ==
    [ done |-> TRUE, v |-> last.v, pos |-> pos, network |-> network,
      optimism |-> optimism[pos.sideToMove],
      mes |-> MaterialisticEvaluationStrategy, pes |-> PositionalEvaluationStrategy ]

\* the inputs drawn while calls are compared
CallMatchups == { <<StartArmy, StartArmy>>, <<OneQueen, BareKing>>, <<Army2701a, Army2701b>> }
CallRule50s  == {50}
CallPositions ==
    { MakePosition(m, stm, r50) : m \in CallMatchups, stm \in Colors, r50 \in CallRule50s }
CallNetworks == {QuietNet, SharpNet}
CallNetworkPairs == CallNetworks \X CallNetworks
CallOptimismValues == {0, 120}
CallStrategyOptionValues == {0, 12}

---------------------------------------------------------------------------
(* Actions                                                                  *)

\* a call of Eval::evaluate(pos) by the thread that owns pos
EvaluateCall ==
    /\ ~last.done
    /\ \E r \in evaluate(pos) :
          last' = [v |-> r.v, lazy |-> r.lazy, nets |-> r.nets,
                   unclamped |-> r.unclamped, ub |-> r.ub, done |-> TRUE]
    /\ UNCHANGED <<pos, optimism, network, MaterialisticEvaluationStrategy,
                   PositionalEvaluationStrategy, prev>>
    /\ UNCHANGED nonEvalVars

\* the caller keeps the value of the call just made, with its inputs, and goes
\* on: a later call is a second call
RememberCall ==
    /\ last.done
    /\ prev' = Remembered
    /\ last' = NoCall
    /\ UNCHANGED <<pos, optimism, network, MaterialisticEvaluationStrategy,
                   PositionalEvaluationStrategy>>
    /\ UNCHANGED nonEvalVars

\* the board collaborator moves to another position (do_move / undo_move / set)
ChangePosition ==
    /\ \E p \in CallPositions : p # pos /\ pos' = p
    /\ last' = NoCall
    /\ UNCHANGED <<optimism, network, MaterialisticEvaluationStrategy,
                   PositionalEvaluationStrategy, prev>>
    /\ UNCHANGED nonEvalVars

\* the search collaborator sets Thread::optimism[c]
SetOptimism ==
    /\ \E c \in Colors, o \in CallOptimismValues :
          /\ o # optimism[c]
          /\ optimism' = [optimism EXCEPT ![c] = o]
    /\ last' = NoCall
    /\ UNCHANGED <<pos, network, MaterialisticEvaluationStrategy,
                   PositionalEvaluationStrategy, prev>>
    /\ UNCHANGED nonEvalVars

\* on_materialistic_evaluation_strategy(o)
OnMaterialisticEvaluationStrategy ==
    /\ \E o \in CallStrategyOptionValues :
          /\ 10 * o # MaterialisticEvaluationStrategy
          /\ MaterialisticEvaluationStrategy' = 10 * o
    /\ last' = NoCall
    /\ UNCHANGED <<pos, optimism, network, PositionalEvaluationStrategy, prev>>
    /\ UNCHANGED nonEvalVars

\* on_positional_evaluation_strategy(o)
OnPositionalEvaluationStrategy ==
    /\ \E o \in CallStrategyOptionValues :
          /\ 10 * o # PositionalEvaluationStrategy
          /\ PositionalEvaluationStrategy' = 10 * o
    /\ last' = NoCall
    /\ UNCHANGED <<pos, optimism, network, MaterialisticEvaluationStrategy, prev>>
    /\ UNCHANGED nonEvalVars

\* a successful load_eval replaces the parameters of one net size
ReplaceNetwork ==
    /\ \E n \in NetSizes, w \in CallNetworks :
          /\ w # network[n]
          /\ network' = [network EXCEPT ![n] = w]
    /\ last' = NoCall
    /\ UNCHANGED <<pos, optimism, MaterialisticEvaluationStrategy,
                   PositionalEvaluationStrategy, prev>>
    /\ UNCHANGED nonEvalVars

---------------------------------------------------------------------------
(* Squares and pieces (types.h).  A square is 8 * rank + file, a piece is  *)
(* 8 * colour + piece type.                                                *)

SQUARE_NB == 64
SQ_NONE   == 64
Squares   == 0 .. (SQUARE_NB - 1)

file_of(s) == s % 8
rank_of(s) == s \div 8
make_square(f, r) == 8 * r + f

NO_PIECE == 0
PAWN     == 1
KNIGHT   == 2
BISHOP   == 3
ROOK     == 4
QUEEN    == 5
KING     == 6

make_piece(c, pt) == 8 * c + pt       \* Piece((c << 3) + pt)
type_of(pc)  == pc % 8                \* PieceType(pc & 7)
color_of(pc) == pc \div 8             \* Color(pc >> 3)

\* a ^ b on non-negative ints, bit by bit
RECURSIVE Xor(_, _)
Xor(a, b) ==
    IF a = 0 THEN b
    ELSE IF b = 0 THEN a
    ELSE (((a % 2) + (b % 2)) % 2) + 2 * Xor(a \div 2, b \div 2)

relative_square(c, s) == Xor(s, 56 * c)          \* Square(int(s) ^ (c * 56))
relative_rank(c, s)   == rank_of(relative_square(c, s))
pawn_push(c) == IF c = WHITE THEN 8 ELSE -8      \* NORTH / SOUTH

---------------------------------------------------------------------------
(* Feature set HalfKAv2_hm (half_ka_v2_hm.h / .cpp).  Tables are indexed   *)
(* [perspective + 1][piece + 1] and [perspective + 1][square + 1].         *)

PS_NB == 704                          \* 11 * SQUARE_NB

PieceSquareIndex ==
    << <<0,   0, 128, 256, 384, 512, 640, 0,
         0,  64, 192, 320, 448, 576, 640, 0>>,
       <<0,  64, 192, 320, 448, 576, 640, 0,
         0,   0, 128, 256, 384, 512, 640, 0>> >>

\* the bucket numbers v of the B(v) entries
KingBucketNumbers ==
    << <<
         28,  29,  30,  31,  31,  30,  29,  28,
         24,  25,  26,  27,  27,  26,  25,  24,
         20,  21,  22,  23,  23,  22,  21,  20,
         16,  17,  18,  19,  19,  18,  17,  16,
         12,  13,  14,  15,  15,  14,  13,  12,
          8,   9,  10,  11,  11,  10,   9,   8,
          4,   5,   6,   7,   7,   6,   5,   4,
          0,   1,   2,   3,   3,   2,   1,   0 >>,
       <<
          0,   1,   2,   3,   3,   2,   1,   0,
          4,   5,   6,   7,   7,   6,   5,   4,
          8,   9,  10,  11,  11,  10,   9,   8,
         12,  13,  14,  15,  15,  14,  13,  12,
         16,  17,  18,  19,  19,  18,  17,  16,
         20,  21,  22,  23,  23,  22,  21,  20,
         24,  25,  26,  27,  27,  26,  25,  24,
         28,  29,  30,  31,  31,  30,  29,  28 >> >>

KingBuckets_per_square(P, ksq) == ksq * PS_NB
KingBuckets_of_white(P, ksq) == KingBucketNumbers[WHITE + 1][ksq + 1] * PS_NB
KingBuckets(P, ksq) == KingBucketNumbers[P + 1][ksq + 1] * PS_NB

\* a table that flips the files whatever the king's file
OrientTBL_always_flipped ==
    << [i \in 1 .. 64 |-> 7], [i \in 1 .. 64 |-> 63] >>

\* SQ_H1 = 7, SQ_A1 = 0, SQ_H8 = 63, SQ_A8 = 56
OrientTBL ==
    << <<
          7,   7,   7,   7,   0,   0,   0,   0,
          7,   7,   7,   7,   0,   0,   0,   0,
          7,   7,   7,   7,   0,   0,   0,   0,
          7,   7,   7,   7,   0,   0,   0,   0,
          7,   7,   7,   7,   0,   0,   0,   0,
          7,   7,   7,   7,   0,   0,   0,   0,
          7,   7,   7,   7,   0,   0,   0,   0,
          7,   7,   7,   7,   0,   0,   0,   0 >>,
       <<
         63,  63,  63,  63,  56,  56,  56,  56,
         63,  63,  63,  63,  56,  56,  56,  56,
         63,  63,  63,  63,  56,  56,  56,  56,
         63,  63,  63,  63,  56,  56,  56,  56,
         63,  63,  63,  63,  56,  56,  56,  56,
         63,  63,  63,  63,  56,  56,  56,  56,
         63,  63,  63,  63,  56,  56,  56,  56,
         63,  63,  63,  63,  56,  56,  56,  56 >> >>

make_index_not_cached(P, s, pc, ksq) ==
    Xor(s, OrientTBL[P + 1][ksq + 1]) + PieceSquareIndex[P + 1][pc + 1] + KingBuckets(P, ksq)

PIECE_NB == 16

FeatureIndexTable_transposed(P, s, pc, ksq) ==
    IF tableFilled /\ pc \in make_piece(WHITE, PAWN) .. (PIECE_NB - 1)
    THEN make_index_not_cached(P, ksq, pc, s)
    ELSE 0

\* FeatureIndexTable[Perspective][s][pc][ksq]: zero in static storage, then
\* as the loops of Features::init() fill it, for pc from W_PAWN to PIECE_NB - 1
FeatureIndexTable(P, s, pc, ksq) ==
    IF tableFilled /\ pc \in make_piece(WHITE, PAWN) .. (PIECE_NB - 1)
    THEN make_index_not_cached(P, s, pc, ksq)
    ELSE 0

\* a lookup that leaves the piece out
make_index_of_square(P, s, pc, ksq) == FeatureIndexTable(P, s, make_piece(WHITE, PAWN), ksq)

make_index(P, s, pc, ksq) == FeatureIndexTable(P, s, pc, ksq)

---------------------------------------------------------------------------
(* Board access (position.h) and the index lists of the feature set.       *)

put_piece(b, pc, s)     == [b EXCEPT ![s] = pc]
remove_piece(b, s)      == [b EXCEPT ![s] = NO_PIECE]
move_piece(b, from, to) == [b EXCEPT ![from] = NO_PIECE, ![to] = b[from]]

pieces(b)          == {s \in Squares : b[s] # NO_PIECE}
pieces_of(b, c)    == {s \in Squares : b[s] # NO_PIECE /\ color_of(b[s]) = c}
square_KING(b, c)  == CHOOSE s \in Squares : b[s] = make_piece(c, KING)
pop_lsb(bb)        == CHOOSE s \in bb : \A t \in bb : s <= t

\* append_active_indices: the loop over pos.pieces(), least square first
RECURSIVE append_active_loop(_, _, _, _, _)
append_active_loop(P, b, ksq, bb, active) ==
    IF bb = {} THEN active
    ELSE LET s == pop_lsb(bb)
         IN  append_active_loop(P, b, ksq, bb \ {s},
                                Append(active, make_index(P, s, b[s], ksq)))

append_active_indices(P, b, active) ==
    append_active_loop(P, b, square_KING(b, P), pieces(b), active)

\* append_changed_indices: the loop over the first n dirty pieces
RECURSIVE append_changed_loop(_, _, _, _, _, _)
append_changed_loop(P, ksq, dp, n, removed, added) ==
    IF n = 0 THEN [removed |-> removed, added |-> added]
    ELSE LET r == append_changed_loop(P, ksq, dp, n - 1, removed, added)
         IN  [removed |-> IF dp.from[n] # SQ_NONE
                          THEN Append(r.removed, make_index(P, dp.from[n], dp.piece[n], ksq))
                          ELSE r.removed,
              added   |-> IF dp.to[n] # SQ_NONE
                          THEN Append(r.added, make_index(P, dp.to[n], dp.piece[n], ksq))
                          ELSE r.added]

append_changed_indices_first(P, ksq, dp, removed, added) ==
    append_changed_loop(P, ksq, dp, IF dp.dirty_num > 1 THEN 1 ELSE dp.dirty_num,
                        removed, added)
append_changed_indices(P, ksq, dp, removed, added) ==
    append_changed_loop(P, ksq, dp, dp.dirty_num, removed, added)

update_cost(s)  == s.dirtyPiece.dirty_num
refresh_cost(b) == Cardinality(pieces(b))

requires_refresh_other(s, perspective) ==
    s.dirtyPiece.piece[1] = make_piece(Other(perspective), KING)
requires_refresh(s, perspective) ==
    s.dirtyPiece.piece[1] = make_piece(perspective, KING)

---------------------------------------------------------------------------
(* The accumulator of one perspective, by the feature indices whose weight *)
(* rows it sums: a function from index to a signed multiplicity, kept      *)
(* without zero entries.  Rows subtracted that were never added show as    *)
(* negative multiplicities.                                                *)

EmptyAccumulation == [i \in {} |-> 0]

AccAdd(acc, i, d) ==
    LET cur == IF i \in DOMAIN acc THEN acc[i] ELSE 0
        dom == IF cur + d = 0 THEN DOMAIN acc \ {i} ELSE DOMAIN acc \cup {i}
    IN  [j \in dom |-> IF j = i THEN cur + d ELSE acc[j]]

RECURSIVE AccApply(_, _, _)
AccApply(acc, list, d) ==
    IF list = <<>> THEN acc
    ELSE AccApply(AccAdd(acc, Head(list), d), Tail(list), d)

\* update_accumulator_refresh: the sum over the active features
RefreshedAccumulation(P, b) ==
    AccApply(EmptyAccumulation, append_active_indices(P, b, <<>>), 1)

update_accumulator_refresh(S, b, P) ==
    [S EXCEPT ![Len(S)].computed[P] = TRUE,
              ![Len(S)].accumulation[P] = RefreshedAccumulation(P, b)]

\* try_find_computed_accumulator: walk back from pos.state()
RECURSIVE find_walk(_, _, _, _, _)
find_walk(S, P, k, next, gain) ==
    IF k > 1 /\ ~S[k].computed[P]
    THEN IF \/ requires_refresh(S[k], P)
            \/ gain - (update_cost(S[k]) + 1) < 0
         THEN [st |-> k, next |-> next]
         ELSE find_walk(S, P, k - 1, k, gain - (update_cost(S[k]) + 1))
    ELSE [st |-> k, next |-> next]

try_find_computed_accumulator(S, b, P) == find_walk(S, P, Len(S), 0, refresh_cost(b))

\* the changes of states k, k-1, .., end+1, gathered as st2 walks back
RECURSIVE gather_changed(_, _, _, _, _, _)
gather_changed(S, P, ksq, k, end, lists) ==
    IF k = end THEN lists
    ELSE gather_changed(S, P, ksq, k - 1, end,
            append_changed_indices(P, ksq, S[k].dirtyPiece, lists.removed, lists.added))

\* update_accumulator_incremental: each state of states_to_update from the
\* one before it, the first from computed_st
RECURSIVE update_accumulator_incremental(_, _, _, _, _)
update_accumulator_incremental(S, b, P, computed_st, states_to_update) ==
    IF states_to_update = <<>> THEN S
    ELSE LET t     == Head(states_to_update)
             lists == gather_changed(S, P, square_KING(b, P), t, computed_st,
                                     [removed |-> <<>>, added |-> <<>>])
             acc   == AccApply(AccApply(S[computed_st].accumulation[P],
                                        lists.removed, -1), lists.added, 1)
             S1    == [S EXCEPT ![t].computed[P] = TRUE, ![t].accumulation[P] = acc]
         IN  update_accumulator_incremental(S1, b, P, t, Tail(states_to_update))

\* update_accumulator<Perspective>
update_accumulator(S, b, P) ==
    LET f == try_find_computed_accumulator(S, b, P)
    IN  IF S[f.st].computed[P]
        THEN IF f.next = 0 THEN S
             ELSE update_accumulator_incremental(S, b, P, f.st,
                     IF f.next = Len(S) THEN <<f.next>> ELSE <<f.next, Len(S)>>)
        ELSE update_accumulator_refresh(S, b, P)

\* hint_common_access_for_perspective<Perspective>
hint_common_access_for_perspective(S, b, P) ==
    IF S[Len(S)].computed[P] THEN S
    ELSE LET f == try_find_computed_accumulator(S, b, P)
         IN  IF S[f.st].computed[P]
             THEN update_accumulator_incremental(S, b, P, f.st, <<Len(S)>>)
             ELSE update_accumulator_refresh(S, b, P)

\* how an update computed perspective P of pos.state(), for the record
UpdatePath(S, b, P) ==
    LET f == try_find_computed_accumulator(S, b, P)
    IN  IF S[Len(S)].computed[P] THEN "kept"
        ELSE IF S[f.st].computed[P] THEN "incremental" ELSE "refresh"

---------------------------------------------------------------------------
(* Moves (position.cpp, movegen.cpp).  A move is [from, to, type,          *)
(* promotion]; a castling move is coded king-takes-rook, to = rook square. *)
(* A castling right is <<colour, kingSide>>.                               *)

Sgn(x)    == IF x > 0 THEN 1 ELSE IF x < 0 THEN -1 ELSE 0
Max(a, b) == IF a > b THEN a ELSE b

Move(from, to, type, promotion) ==
    [from |-> from, to |-> to, type |-> type, promotion |-> promotion]

\* DirtyPiece: piece[3], from[3], to[3]; entries at dirty_num and beyond are
\* never read
DirtyPiece(n, pcs, froms, tos) ==
    [dirty_num |-> n, piece |-> pcs, from |-> froms, to |-> tos]

\* no piece stands strictly between a and s on their common line
ClearBetween(b, a, s) ==
    LET df == file_of(s) - file_of(a)
        dr == rank_of(s) - rank_of(a)
        n  == Max(Abs(df), Abs(dr))
    IN  \A k \in 1 .. (n - 1) :
            b[make_square(file_of(a) + k * Sgn(df), rank_of(a) + k * Sgn(dr))] = NO_PIECE

\* the piece on a attacks square s
attacks(b, a, s) ==
    LET pc == b[a]
        pt == type_of(pc)
        df == Abs(file_of(s) - file_of(a))
        dr == Abs(rank_of(s) - rank_of(a))
    IN  /\ a # s
        /\ CASE pt = PAWN   -> df = 1 /\ rank_of(s) - rank_of(a) =
                                          (IF color_of(pc) = WHITE THEN 1 ELSE -1)
             [] pt = KNIGHT -> {df, dr} = {1, 2}
             [] pt = BISHOP -> df = dr /\ ClearBetween(b, a, s)
             [] pt = ROOK   -> (df = 0 \/ dr = 0) /\ ClearBetween(b, a, s)
             [] pt = QUEEN  -> (df = 0 \/ dr = 0 \/ df = dr) /\ ClearBetween(b, a, s)
             [] pt = KING   -> Max(df, dr) = 1
             [] OTHER       -> FALSE

\* attackers_to(s) & pieces(c)
attackers_to(b, s, c) == {a \in pieces_of(b, c) : attacks(b, a, s)}

\* checkers(): the pieces of the other side that attack the king of c
checkers(b, c) == attackers_to(b, square_KING(b, c), Other(c))

castling_rook_square(c, kingSide) == relative_square(c, IF kingSide THEN 7 ELSE 0)
castling_king_square(c)           == relative_square(c, 4)

\* the rights lost when a move starts from or ends on s (castlingRightsMask)
castlingRightsMask(s) ==
    {cr \in Colors \X BOOLEAN :
        s = castling_king_square(cr[1]) \/ s = castling_rook_square(cr[1], cr[2])}

\* Position::do_move: the board after the move and the StateInfo it fills
do_move(b, us, cur, m) ==
    LET them     == Other(us)
        from     == m.from
        pc       == b[from]
        castling == m.type = "CASTLING"
        kingSide == m.to > from
        rfrom    == m.to
        rto      == relative_square(us, IF kingSide THEN 5 ELSE 3)
        to       == IF castling THEN relative_square(us, IF kingSide THEN 6 ELSE 2)
                    ELSE m.to
        captured == IF castling THEN NO_PIECE
                    ELSE IF m.type = "EN_PASSANT" THEN make_piece(them, PAWN)
                    ELSE b[to]
        capsq    == IF m.type = "EN_PASSANT" THEN to - pawn_push(us) ELSE to
        promoted == type_of(pc) = PAWN /\ m.type = "PROMOTION"
        promotion == make_piece(us, m.promotion)
        \* do_castling<true>
        b1 == IF castling
              THEN put_piece(put_piece(remove_piece(remove_piece(b, from), rfrom),
                                       make_piece(us, KING), to),
                             make_piece(us, ROOK), rto)
              ELSE b
        b2 == IF captured # NO_PIECE THEN remove_piece(b1, capsq) ELSE b1
        b3 == IF castling THEN b2 ELSE move_piece(b2, from, to)
        b4 == IF promoted THEN put_piece(remove_piece(b3, to), promotion, to) ELSE b3
        dp1 == IF castling
               THEN DirtyPiece(2, <<make_piece(us, KING), make_piece(us, ROOK), NO_PIECE>>,
                                  <<from, rfrom, SQ_NONE>>, <<to, rto, SQ_NONE>>)
               ELSE IF captured # NO_PIECE
               THEN DirtyPiece(2, <<pc, captured, NO_PIECE>>,
                                  <<from, capsq, SQ_NONE>>, <<to, SQ_NONE, SQ_NONE>>)
               ELSE DirtyPiece(1, <<pc, NO_PIECE, NO_PIECE>>,
                                  <<from, SQ_NONE, SQ_NONE>>, <<to, SQ_NONE, SQ_NONE>>)
        dp2 == IF promoted
               THEN DirtyPiece(dp1.dirty_num + 1,
                               [dp1.piece EXCEPT ![dp1.dirty_num + 1] = promotion],
                               [dp1.from  EXCEPT ![dp1.dirty_num + 1] = SQ_NONE],
                               [dp1.to    EXCEPT ![1] = SQ_NONE, ![dp1.dirty_num + 1] = to])
               ELSE dp1
        epSquare == IF /\ type_of(pc) = PAWN
                       /\ Xor(to, from) = 16
                       /\ \E a \in pieces_of(b4, them) :
                              type_of(b4[a]) = PAWN /\ attacks(b4, a, to - pawn_push(us))
                    THEN to - pawn_push(us)
                    ELSE SQ_NONE
    IN  [board |-> b4,
         st    |-> [dirtyPiece     |-> dp2,
                    computed       |-> [c \in Colors |-> FALSE],
                    accumulation   |-> [c \in Colors |-> EmptyAccumulation],
                    capturedPiece  |-> captured,
                    epSquare       |-> epSquare,
                    castlingRights |-> cur.castlingRights
                                          \ (castlingRightsMask(from) \cup castlingRightsMask(to)),
                    move           |-> m,
                    moved          |-> pc]]

\* Position::undo_move: the board before the move that led to state s
undo_move(b, us, s) ==
    LET m        == s.move
        from     == m.from
        castling == m.type = "CASTLING"
        kingSide == m.to > from
        rfrom    == m.to
        rto      == relative_square(us, IF kingSide THEN 5 ELSE 3)
        to       == IF castling THEN relative_square(us, IF kingSide THEN 6 ELSE 2)
                    ELSE m.to
        b1 == IF m.type = "PROMOTION"
              THEN put_piece(remove_piece(b, to), make_piece(us, PAWN), to)
              ELSE b
        capsq == IF m.type = "EN_PASSANT" THEN to - pawn_push(us) ELSE to
    IN  IF castling
        THEN \* do_castling<false>
             put_piece(put_piece(remove_piece(remove_piece(b1, to), rto),
                                 make_piece(us, KING), from),
                       make_piece(us, ROOK), rfrom)
        ELSE LET b2 == move_piece(b1, to, from)
             IN  IF s.capturedPiece # NO_PIECE
                 THEN put_piece(b2, s.capturedPiece, capsq)
                 ELSE b2

\* Position::do_null_move: the StateInfo it fills
do_null_move(cur) ==
    [dirtyPiece     |-> DirtyPiece(0, <<NO_PIECE, NO_PIECE, NO_PIECE>>,
                                      <<SQ_NONE, SQ_NONE, SQ_NONE>>,
                                      <<SQ_NONE, SQ_NONE, SQ_NONE>>),
     computed       |-> [c \in Colors |-> FALSE],
     accumulation   |-> [c \in Colors |-> EmptyAccumulation],
     capturedPiece  |-> NO_PIECE,
     epSquare       |-> SQ_NONE,
     castlingRights |-> cur.castlingRights,
     move           |-> Move(0, 0, "NULL", NO_PIECE),
     moved          |-> NO_PIECE]

PromotionTypes == {KNIGHT, QUEEN}

\* the pseudo-legal moves of the piece on from
moves_from(b, us, cur, from) ==
    LET pc   == b[from]
        them == Other(us)
        free(s)  == b[s] = NO_PIECE
        enemy(s) == b[s] # NO_PIECE /\ color_of(b[s]) = them /\ type_of(b[s]) # KING
        up   == pawn_push(us)
        kind(to) == IF relative_rank(us, to) = 7 THEN "PROMOTION" ELSE "NORMAL"
        promos(to) == IF relative_rank(us, to) = 7 THEN PromotionTypes ELSE {NO_PIECE}
        pawnTargets ==
            {to \in Squares :
                \/ to = from + up /\ free(to)
                \/ /\ relative_rank(us, from) = 1
                   /\ to = from + 2 * up /\ free(from + up) /\ free(to)
                \/ attacks(b, from, to) /\ enemy(to)}
    IN  IF type_of(pc) = PAWN
        THEN {Move(from, to, kind(to), pr) : <<to, pr>> \in
                 {x \in pawnTargets \X (PromotionTypes \cup {NO_PIECE}) : x[2] \in promos(x[1])}}
             \cup {Move(from, to, "EN_PASSANT", NO_PIECE) : to \in
                     {s \in Squares : s = cur.epSquare /\ attacks(b, from, s)}}
        ELSE {Move(from, to, "NORMAL", NO_PIECE) : to \in
                 {s \in Squares : attacks(b, from, s) /\ (free(s) \/ enemy(s))}}

\* the castling moves the rights and the board allow
castling_moves(b, us, cur) ==
    {Move(castling_king_square(us), castling_rook_square(us, cr[2]), "CASTLING", NO_PIECE) :
        cr \in {x \in cur.castlingRights :
                  LET ksq  == castling_king_square(us)
                      rsq  == castling_rook_square(us, x[2])
                      kto  == relative_square(us, IF x[2] THEN 6 ELSE 2)
                      path == {s \in Squares : rank_of(s) = rank_of(ksq)
                                   /\ ( (ksq <= s /\ s <= kto) \/ (kto <= s /\ s <= ksq) )}
                  IN  /\ x[1] = us
                      /\ b[ksq] = make_piece(us, KING)
                      /\ b[rsq] = make_piece(us, ROOK)
                      /\ ClearBetween(b, ksq, rsq)
                      /\ \A s \in path : attackers_to(b, s, Other(us)) = {} }}

\* Position::legal on the generated moves: the mover's king is not left attacked
legal_moves(b, us, cur) ==
    {m \in castling_moves(b, us, cur) \cup
           UNION {moves_from(b, us, cur, from) : from \in pieces_of(b, us)} :
        checkers(do_move(b, us, cur, m).board, us) = {}}

---------------------------------------------------------------------------
(* Root positions and the actions on the board and the accumulators.       *)

BoardOf(placed) ==
    [s \in Squares |-> IF \E p \in placed : p[1] = s
                       THEN (CHOOSE p \in placed : p[1] = s)[2]
                       ELSE NO_PIECE]

\* Position::set: the StateInfo is zeroed, then rights and en-passant square
\* are read from the FEN
RootState(rights) ==
    [dirtyPiece     |-> DirtyPiece(0, <<0, 0, 0>>, <<0, 0, 0>>, <<0, 0, 0>>),
     computed       |-> [c \in Colors |-> FALSE],
     accumulation   |-> [c \in Colors |-> EmptyAccumulation],
     capturedPiece  |-> NO_PIECE,
     epSquare       |-> SQ_NONE,
     castlingRights |-> rights,
     move           |-> Move(0, 0, "ROOT", NO_PIECE),
     moved          |-> NO_PIECE]

\* 8/6k1/8/8/4p3/8/p2P4/1N2K2R w K - 0 1
RootWhite ==
    [board |-> BoardOf({ <<4, make_piece(WHITE, KING)>>, <<7, make_piece(WHITE, ROOK)>>,
                         <<1, make_piece(WHITE, KNIGHT)>>, <<11, make_piece(WHITE, PAWN)>>,
                         <<54, make_piece(BLACK, KING)>>, <<8, make_piece(BLACK, PAWN)>>,
                         <<28, make_piece(BLACK, PAWN)>> }),
     sideToMove |-> WHITE,
     rights |-> {<<WHITE, TRUE>>}]

\* 1n2k2r/P2p4/8/4P3/8/8/6K1/8 b k - 0 1
RootBlack ==
    [board |-> BoardOf({ <<60, make_piece(BLACK, KING)>>, <<63, make_piece(BLACK, ROOK)>>,
                         <<57, make_piece(BLACK, KNIGHT)>>, <<51, make_piece(BLACK, PAWN)>>,
                         <<14, make_piece(WHITE, KING)>>, <<48, make_piece(WHITE, PAWN)>>,
                         <<36, make_piece(WHITE, PAWN)>> }),
     sideToMove |-> BLACK,
     rights |-> {<<BLACK, TRUE>>}]

Roots == {RootWhite, RootBlack}

MaxPly == 2

NotUpdated == [c \in Colors |-> "none"]

\* Position::do_move(m, newSt) on a legal move
DoMove ==
    /\ Len(st) <= MaxPly
    /\ \E m \in legal_moves(board, sideToMove, st[Len(st)]) :
          LET r == do_move(board, sideToMove, st[Len(st)], m)
          IN  /\ board' = r.board
              /\ st' = Append(st, r.st)
    /\ sideToMove' = Other(sideToMove)
    /\ updated' = NotUpdated
    /\ UNCHANGED nonFeatVars

\* Position::do_null_move(newSt), the side to move not in check
DoNullMove ==
    /\ Len(st) <= MaxPly
    /\ checkers(board, sideToMove) = {}
    /\ st' = Append(st, do_null_move(st[Len(st)]))
    /\ sideToMove' = Other(sideToMove)
    /\ updated' = NotUpdated
    /\ UNCHANGED board
    /\ UNCHANGED nonFeatVars

\* Position::undo_move(m)
UndoMove ==
    /\ Len(st) > 1
    /\ st[Len(st)].move.type # "NULL"
    /\ board' = undo_move(board, Other(sideToMove), st[Len(st)])
    /\ st' = SubSeq(st, 1, Len(st) - 1)
    /\ sideToMove' = Other(sideToMove)
    /\ updated' = NotUpdated
    /\ UNCHANGED nonFeatVars

\* Position::undo_null_move()
UndoNullMove ==
    /\ Len(st) > 1
    /\ st[Len(st)].move.type = "NULL"
    /\ st' = SubSeq(st, 1, Len(st) - 1)
    /\ sideToMove' = Other(sideToMove)
    /\ updated' = NotUpdated
    /\ UNCHANGED board
    /\ UNCHANGED nonFeatVars

\* FeatureTransformer::transform, called by NNUE::evaluate: update_accumulator
\* for WHITE, then for BLACK
Transform ==
    /\ \E c \in Colors : ~st[Len(st)].computed[c]
    /\ st' = update_accumulator(update_accumulator(st, board, WHITE), board, BLACK)
    /\ updated' = [c \in Colors |-> UpdatePath(st, board, c)]
    /\ UNCHANGED <<board, sideToMove>>
    /\ UNCHANGED nonFeatVars

\* FeatureTransformer::hint_common_access, called by
\* NNUE::hint_common_parent_position
HintCommonAccess ==
    /\ \E c \in Colors : ~st[Len(st)].computed[c]
    /\ st' = hint_common_access_for_perspective(
                 hint_common_access_for_perspective(st, board, WHITE), board, BLACK)
    /\ updated' = [c \in Colors |-> UpdatePath(st, board, c)]
    /\ UNCHANGED <<board, sideToMove>>
    /\ UNCHANGED nonFeatVars

InitFeatIn(R) ==
    /\ \E r \in R :
          /\ board = r.board
          /\ sideToMove = r.sideToMove
          /\ st = <<RootState(r.rights)>>
    /\ updated = NotUpdated

\* the board part of the state in the specifications that leave it alone
FeatAtRest == InitFeatIn({RootWhite})

---------------------------------------------------------------------------
(* The feature index as a function of its four arguments, raw and cached   *)
(* (half_ka_v2_hm.cpp).                                                    *)

Dimensions == (SQUARE_NB * PS_NB) \div 2

Perspectives == Colors
Pieces == 0 .. (PIECE_NB - 1)
RealPieces == {make_piece(c, pt) : c \in Colors, pt \in PAWN .. KING}

NoIndex == [op |-> "none"]

\* Features::init()
FeaturesInit ==
    /\ ~tableFilled
    /\ tableFilled' = TRUE
    /\ UNCHANGED <<probe, indexValue>>
    /\ UNCHANGED nonIndexVars

\* HalfKAv2_hm::make_index_not_cached(Perspective, s, pc, ksq)
MakeIndexNotCached ==
    /\ indexValue' = [op |-> "make_index_not_cached",
                      value |-> make_index_not_cached(probe.Perspective, probe.s,
                                                      probe.pc, probe.ksq)]
    /\ UNCHANGED <<tableFilled, probe>>
    /\ UNCHANGED nonIndexVars

\* HalfKAv2_hm::make_index<Perspective>(s, pc, ksq)
MakeIndex ==
    /\ indexValue' = [op |-> "make_index", filled |-> tableFilled,
                      value |-> make_index(probe.Perspective, probe.s,
                                           probe.pc, probe.ksq)]
    /\ UNCHANGED <<tableFilled, probe>>
    /\ UNCHANGED nonIndexVars

InitIndex ==
    /\ tableFilled = FALSE
    /\ probe \in [Perspective : Perspectives, s : Squares, pc : Pieces, ksq : Squares]
    /\ indexValue = NoIndex

\* after start-up, with no index computation under study
IndexAtRest ==
    /\ tableFilled = TRUE
    /\ probe = [Perspective |-> WHITE, s |-> 0, pc |-> make_piece(WHITE, PAWN), ksq |-> 0]
    /\ indexValue = NoIndex

---------------------------------------------------------------------------
(* The parameter store (evaluate_nnue.cpp).  A stream is a sequence of     *)
(* tokens: a 32-bit field is one token, a description byte is one token,   *)
(* the parameters of the feature transformer are FtItems tokens and those  *)
(* of one layer stack StackItems tokens.  An istream is [data, pos, fail]. *)

Version == 2062757664                 \* 0x7AF32F20u

FtItems    == 2
StackItems == 1

\* the structural hashes, by small numbers that differ as the real ones do
FeatureTransformerHash(small) == 41 + small   \* FeatureTransformer<..>::get_hash_value()
NetworkHash(small)            == 51 + small   \* Network<..>::get_hash_value()
HashValue(small) == Xor(FeatureTransformerHash(small), NetworkHash(small))

Zeros(n) == [i \in 1 .. n |-> 0]

IStream(data)   == [data |-> data, pos |-> 0, fail |-> FALSE]
\* std::ifstream on a file that cannot be opened
FailedOpen      == [data |-> <<>>, pos |-> 0, fail |-> TRUE]

\* the value of a field whose read failed: never looked at, the callers test
\* the stream first
Indeterminate == -1

\* istream::read of n tokens into buf: a short read stores what is there and
\* sets failbit
stream_read(s, buf, n) ==
    LET avail == Len(s.data) - s.pos
        got   == IF s.fail THEN 0 ELSE IF n <= avail THEN n ELSE avail
    IN  [stream |-> [s EXCEPT !.pos  = s.pos + got,
                              !.fail = s.fail \/ n > avail],
         values |-> [i \in 1 .. n |-> IF i <= got THEN s.data[s.pos + i] ELSE buf[i]],
         got    |-> got]

\* read_little_endian<std::uint32_t>
read_little_endian(s) ==
    LET r == stream_read(s, <<Indeterminate>>, 1)
    IN  [stream |-> r.stream, value |-> r.values[1]]

\* stream.peek() == eof, on a stream that has not failed
at_eof_unchecked(s) == TRUE
at_eof(s) == s.pos = Len(s.data)

\* read_header: hashValue and desc are the out-parameters
read_header(s, desc) ==
    LET version   == read_little_endian(s)
        hashValue == read_little_endian(version.stream)
        size      == read_little_endian(hashValue.stream)
    IN  IF size.stream.fail \/ version.value # Version
        THEN [ok |-> FALSE, stream |-> size.stream, hashValue |-> hashValue.value,
              desc |-> desc]
        ELSE LET resized == [i \in 1 .. size.value |->
                                IF i <= Len(desc) THEN desc[i] ELSE 0]
                 r == stream_read(size.stream, resized, size.value)
             IN  [ok |-> ~r.stream.fail, stream |-> r.stream,
                  hashValue |-> hashValue.value, desc |-> r.values]

\* Detail::read_parameters: the sub-header, then the n tokens of the
\* component; elements a failed read did not reach are left as the decoder
\* leaves them, g[i]
Detail_read_parameters(s, hash, reference, n, g) ==
    LET header == read_little_endian(s)
    IN  IF header.stream.fail \/ header.value # hash
        THEN [ok |-> FALSE, stream |-> header.stream, reference |-> reference]
        ELSE LET r == stream_read(header.stream, reference, n)
             IN  [ok |-> ~r.stream.fail, stream |-> r.stream,
                  reference |-> [i \in 1 .. n |->
                                    IF i <= r.got THEN r.values[i] ELSE g[i]]]

\* the loop over the layer stacks i .. LayerStacks of read_parameters
RECURSIVE read_layer_stacks(_, _, _, _, _)
read_layer_stacks(s, small, layers, i, g) ==
    IF i > LayerStacks THEN [ok |-> TRUE, stream |-> s, layers |-> layers]
    ELSE LET r == Detail_read_parameters(s, NetworkHash(small), layers[i], StackItems, g)
             l == [layers EXCEPT ![i] = r.reference]
         IN  IF ~r.ok THEN [ok |-> FALSE, stream |-> r.stream, layers |-> l]
             ELSE read_layer_stacks(r.stream, small, l, i + 1, g)

\* read_parameters, after the loop over the layer stacks returned ls
read_parameters_layers(ls, store) ==
    [ok    |-> ls.ok /\ ~ls.stream.fail /\ at_eof(ls.stream),
     store |-> [store EXCEPT !.layers = ls.layers]]

\* read_parameters, after Detail::read_parameters of the transformer returned ft
read_parameters_transformer(ft, small, store, g) ==
    IF ~ft.ok THEN [ok |-> FALSE, store |-> [store EXCEPT !.ft = ft.reference]]
    ELSE read_parameters_layers(
            read_layer_stacks(ft.stream, small, store.layers, 1, g),
            [store EXCEPT !.ft = ft.reference])

\* read_parameters, after read_header returned h
read_parameters_header(h, small, store, g) ==
    IF ~h.ok \/ h.hashValue # HashValue(small)
    THEN [ok |-> FALSE, store |-> [store EXCEPT !.desc = h.desc]]
    ELSE read_parameters_transformer(
            Detail_read_parameters(h.stream, FeatureTransformerHash(small),
                                   store.ft, FtItems, g),
            small, [store EXCEPT !.desc = h.desc], g)

\* read_parameters(stream, small) on the store [ft, layers, desc] of that size
read_parameters(s, small, store, g) ==
    read_parameters_header(read_header(s, store.desc), small, store, g)

\* initialize(small): fresh zeroed storage for the transformer and the stacks
initialize(store) ==
    [store EXCEPT !.ft = Zeros(FtItems),
                  !.layers = [i \in 1 .. LayerStacks |-> Zeros(StackItems)]]

\* load_eval(name, stream, small)
load_eval(name, s, small, store, g) ==
    read_parameters(s, small, [initialize(store) EXCEPT !.fileName = name], g)

\* write_header
write_header_hash_first(hashValue, desc) ==
    <<hashValue, Version, Len(desc)>> \o desc
write_header(hashValue, desc) ==
    <<Version, hashValue, Len(desc)>> \o desc

\* Detail::write_parameters: the sub-header, then the component
Detail_write_parameters(hash, reference) == <<hash>> \o reference

RECURSIVE write_layer_stacks(_, _, _)
write_layer_stacks(small, layers, i) ==
    IF i > LayerStacks THEN <<>>
    ELSE Detail_write_parameters(NetworkHash(small), layers[i])
            \o write_layer_stacks(small, layers, i + 1)

\* write_parameters(stream, small) to an ostream that takes every write
write_parameters(small, store) ==
    write_header(HashValue(small), store.desc)
        \o Detail_write_parameters(FeatureTransformerHash(small), store.ft)
        \o write_layer_stacks(small, store.layers, 1)

\* save_eval(stream, small)
save_eval(small, store) ==
    IF store.fileName = "" THEN [ok |-> FALSE, data |-> <<>>]
    ELSE [ok |-> TRUE, data |-> write_parameters(small, store)]

\* the store of one net size, as the globals hold it
StoreOf(small) ==
    [ft |-> featureTransformer[small], layers |-> networkLayers[small],
     fileName |-> fileName[small], desc |-> netDescription[small]]

---------------------------------------------------------------------------
(* Streams offered to load_eval, and the actions on the parameter store.   *)

MaxDescription == 2
MaxLoads       == 2

EvalFileDefaultName(small) ==
    IF small = Small THEN "nn-baff1ede1f90.nnue" ELSE "nn-b1a57edbea57.nnue"

Description(k) == [i \in 1 .. k |-> 64 + i]

ParameterSet(p) ==
    [ft     |-> [i \in 1 .. FtItems |-> 100 * p + i],
     layers |-> [k \in 1 .. LayerStacks |-> [i \in 1 .. StackItems |-> 100 * p + 10 * k + i]]]

RECURSIVE LayerBlocks(_, _, _)
LayerBlocks(small, layers, k) ==
    IF k > LayerStacks THEN <<>>
    ELSE <<NetworkHash(small)>> \o layers[k] \o LayerBlocks(small, layers, k + 1)

\* a network file of the format for net size small
NetFile(small, desc, params) ==
    <<Version, HashValue(small), Len(desc)>> \o desc
        \o <<FeatureTransformerHash(small)>> \o params.ft
        \o LayerBlocks(small, params.layers, 1)

PlainFile(small) == NetFile(small, Description(0), ParameterSet(1))
NamedFile(small) == NetFile(small, Description(MaxDescription), ParameterSet(2))

GoodFiles == {PlainFile(n) : n \in NetSizes} \cup {NamedFile(n) : n \in NetSizes}

\* where the sub-header of the feature transformer and of layer stack k sit
\* in NamedFile
FtAt       == 3 + MaxDescription + 1
LayerAt(k) == FtAt + FtItems + (k - 1) * (1 + StackItems) + 1

Prefix(f, n) == SubSeq(f, 1, n)

\* cuts through the header, the description, the feature transformer and the
\* first layer stack, and through the last layer stack
TruncatedFiles ==
    {Prefix(NamedFile(Big), n) : n \in 0 .. (LayerAt(1) + StackItems)}
        \cup {Prefix(NamedFile(n), Len(NamedFile(n)) - 1) : n \in NetSizes}

DamagedFiles ==
    { [NamedFile(Big) EXCEPT ![1] = Version - 1],
      [NamedFile(Big) EXCEPT ![3] = MaxDescription + 1],
      [NamedFile(Big) EXCEPT ![3] = MaxDescription - 1],
      [NamedFile(Big) EXCEPT ![LayerAt(1)] = FeatureTransformerHash(Big)],
      [NamedFile(Big) EXCEPT ![LayerAt(LayerStacks)] = FeatureTransformerHash(Big)] }
        \cup {[NamedFile(n) EXCEPT ![FtAt] = NetworkHash(n)] : n \in NetSizes}
        \cup {NamedFile(n) \o <<0>> : n \in NetSizes}

InputStreams ==
    {IStream(f) : f \in GoodFiles \cup TruncatedFiles \cup DamagedFiles} \cup {FailedOpen}

\* what a decoder leaves in the elements a failed read did not reach
Garbage == {Zeros(FtItems + StackItems), [i \in 1 .. (FtItems + StackItems) |-> 99]}

NoLoad == [done |-> FALSE, fromSaved |-> FALSE]
NoSave == [done |-> FALSE, ok |-> FALSE]

\* the stream the last save_eval wrote, reopened for reading
SavedStreams == IF saved.ok THEN {IStream(saved.data)} ELSE {}

\* load_eval(name, stream, small), on a file or on the stream save_eval wrote
LoadEval ==
    /\ loads < MaxLoads
    /\ \E small \in NetSizes, g \in Garbage,
          src \in {<<s, FALSE>> : s \in InputStreams}
                    \cup {<<s, TRUE>> : s \in SavedStreams} :
          \E r \in {load_eval(EvalFileDefaultName(small), src[1], small, StoreOf(small), g)} :
              /\ featureTransformer' = [featureTransformer EXCEPT ![small] = r.store.ft]
              /\ networkLayers'  = [networkLayers EXCEPT ![small] = r.store.layers]
              /\ fileName'       = [fileName EXCEPT ![small] = r.store.fileName]
              /\ netDescription' = [netDescription EXCEPT ![small] = r.store.desc]
              /\ origin' = [origin EXCEPT ![small] =
                               [ok |-> r.ok, data |-> IF r.ok THEN src[1].data ELSE <<>>]]
              /\ lastLoad' = [done |-> TRUE, small |-> small, stream |-> src[1],
                              ok |-> r.ok, fromSaved |-> src[2],
                              before |-> [ft |-> featureTransformer[small],
                                          layers |-> networkLayers[small],
                                          desc |-> netDescription[small],
                                          loaded |-> origin[small].ok]]
    /\ loads' = loads + 1
    /\ UNCHANGED saved
    /\ UNCHANGED nonLoadVars

\* save_eval(stream, small)
SaveEval ==
    /\ \E small \in NetSizes :
          \E r \in {save_eval(small, StoreOf(small))} :
              saved' = [done |-> TRUE, small |-> small, ok |-> r.ok, data |-> r.data,
                        ft |-> featureTransformer[small],
                        layers |-> networkLayers[small],
                        desc |-> netDescription[small],
                        goodLoad |-> origin[small].ok,
                        source |-> origin[small].data]
    /\ lastLoad' = [lastLoad EXCEPT !.fromSaved = FALSE]
    /\ UNCHANGED <<featureTransformer, networkLayers, fileName, netDescription,
                   origin, loads>>
    /\ UNCHANGED nonLoadVars

\* before NNUE::init: null pointers, empty names and descriptions
InitLoad ==
    /\ featureTransformer = [n \in NetSizes |-> <<>>]
    /\ networkLayers = [n \in NetSizes |-> <<>>]
    /\ fileName = [n \in NetSizes |-> ""]
    /\ netDescription = [n \in NetSizes |-> <<>>]
    /\ origin = [n \in NetSizes |-> [ok |-> FALSE, data |-> <<>>]]
    /\ lastLoad = NoLoad
    /\ saved = NoSave
    /\ loads = 0

---------------------------------------------------------------------------
(* Reloading a network while search threads exist (main.cpp, ucioption.cpp, *)
(* evaluate.cpp; the command loop and the threads as the callers use them). *)
(* Thread 1 is Threads.main().                                              *)

NumThreads  == 2
MaxSearches == 2

SearchThreads == 1 .. NumThreads
MainThread    == 1

\* dirs of NNUE::init: "<internal>", "", CommandLine::binaryDirectory
Internal == 1
LastDir  == 3

OptionNames == {"", "None", EvalFileDefaultName(Small), EvalFileDefaultName(Big)}

\* eval_file of NNUE::init for a net size
eval_file(netSize) ==
    IF netSize = Small THEN EvalFileDefaultName(Small)
    ELSE IF optionEvalFile = "" THEN EvalFileDefaultName(Big)
    ELSE optionEvalFile

\* Thread::wait_for_search_finished returns once the thread is not searching
no_wait(t) == TRUE
wait_for_search_finished(t) == ~searching[t]

InLoop == uci.pc = "loop"

\* the tables of a net size after initialize(): zeroed, or read in part by a
\* load_eval that returned false
Cleared_tables == "<cleared>"

\* UCI "go": start_thinking waits for the previous search, then wakes the
\* main thread
Go ==
    /\ ~terminated
    /\ InLoop
    /\ searches < MaxSearches
    /\ wait_for_search_finished(MainThread)
    /\ searching' = [searching EXCEPT ![MainThread] = TRUE]
    /\ searches' = searches + 1
    /\ UNCHANGED <<uci, workerPc, storage, currentEvalFileName, optionEvalFile>>
    /\ UNCHANGED <<everLoaded, loadedFrom, initLog>>
    /\ UNCHANGED nonConcVars

\* MainThread::search begins: it wakes the other threads
MainSearchBegin ==
    /\ ~terminated
    /\ searching[MainThread]
    /\ workerPc[MainThread] = "idle"
    /\ searching' = [t \in SearchThreads |-> TRUE]
    /\ workerPc' = [workerPc EXCEPT ![MainThread] = "search"]
    /\ UNCHANGED <<uci, storage, currentEvalFileName, optionEvalFile, searches>>
    /\ UNCHANGED <<everLoaded, loadedFrom, initLog>>
    /\ UNCHANGED nonConcVars

\* Thread::idle_loop of another thread finds searching set and calls search()
HelperSearchBegin ==
    /\ ~terminated
    /\ \E t \in SearchThreads \ {MainThread} :
          /\ searching[t]
          /\ workerPc[t] = "idle"
          /\ workerPc' = [workerPc EXCEPT ![t] = "search"]
    /\ UNCHANGED <<uci, searching, storage, currentEvalFileName, optionEvalFile, searches>>
    /\ UNCHANGED <<everLoaded, loadedFrom, initLog>>
    /\ UNCHANGED nonConcVars

\* a searching thread enters Eval::evaluate
EvaluateBegin ==
    /\ ~terminated
    /\ \E t \in SearchThreads :
          /\ workerPc[t] = "search"
          /\ workerPc' = [workerPc EXCEPT ![t] = "evaluate"]
    /\ UNCHANGED <<uci, searching, storage, currentEvalFileName, optionEvalFile, searches>>
    /\ UNCHANGED <<everLoaded, loadedFrom, initLog>>
    /\ UNCHANGED nonConcVars

\* Eval::evaluate returns to the search
EvaluateEnd ==
    /\ ~terminated
    /\ \E t \in SearchThreads :
          /\ workerPc[t] = "evaluate"
          /\ workerPc' = [workerPc EXCEPT ![t] = "search"]
    /\ UNCHANGED <<uci, searching, storage, currentEvalFileName, optionEvalFile, searches>>
    /\ UNCHANGED <<everLoaded, loadedFrom, initLog>>
    /\ UNCHANGED nonConcVars

\* search() of another thread returns to idle_loop, which clears searching
HelperSearchEnd ==
    /\ ~terminated
    /\ \E t \in SearchThreads \ {MainThread} :
          /\ workerPc[t] = "search"
          /\ workerPc' = [workerPc EXCEPT ![t] = "idle"]
          /\ searching' = [searching EXCEPT ![t] = FALSE]
    /\ UNCHANGED <<uci, storage, currentEvalFileName, optionEvalFile, searches>>
    /\ UNCHANGED <<everLoaded, loadedFrom, initLog>>
    /\ UNCHANGED nonConcVars

\* MainThread::search waits for the other threads, then returns to idle_loop
MainSearchEnd ==
    /\ ~terminated
    /\ workerPc[MainThread] = "search"
    /\ \A t \in SearchThreads \ {MainThread} : wait_for_search_finished(t)
    /\ workerPc' = [workerPc EXCEPT ![MainThread] = "idle"]
    /\ searching' = [searching EXCEPT ![MainThread] = FALSE]
    /\ UNCHANGED <<uci, storage, currentEvalFileName, optionEvalFile, searches>>
    /\ UNCHANGED <<everLoaded, loadedFrom, initLog>>
    /\ UNCHANGED nonConcVars

\* where NNUE::init stands: the net size and the directory of its loops,
\* and whether load_eval is running
InNNUEInit(caller, netSize, dir, loading) ==
    [pc |-> "nnue_init", caller |-> caller, netSize |-> netSize, dir |-> dir,
     loading |-> loading]

InUciLoop == [pc |-> "loop"]

\* the next iteration of the loops of NNUE::init, or its return
NextIteration(u) ==
    IF u.dir < LastDir THEN InNNUEInit(u.caller, u.netSize, u.dir + 1, FALSE)
    ELSE IF u.netSize = Big THEN InNNUEInit(u.caller, Small, Internal, FALSE)
    ELSE InUciLoop

\* an iteration that tried the embedded data under any requested name
CallsLoadEval_any_name(u) ==
    currentEvalFileName[u.netSize] # eval_file(u.netSize)

\* does this iteration of NNUE::init call load_eval
CallsLoadEval(u) ==
    /\ currentEvalFileName[u.netSize] # eval_file(u.netSize)
    /\ (u.dir = Internal) => (eval_file(u.netSize) = EvalFileDefaultName(u.netSize))

\* UCI "setoption name EvalFile value v": the search is waited for, the
\* option is assigned, on_eval_file runs NNUE::init
SetOptionEvalFile ==
    /\ ~terminated
    /\ InLoop
    /\ wait_for_search_finished(MainThread)
    /\ \E v \in OptionNames : optionEvalFile' = v
    /\ uci' = InNNUEInit("setoption", Big, Internal, FALSE)
    /\ initLog' = [attempts |-> <<>>,
                   atEntry  |-> currentEvalFileName,
                   request  |-> [n \in NetSizes |-> eval_file(n)'],
                   again    |-> [n \in NetSizes |-> eval_file(n)' = eval_file(n)]]
    /\ UNCHANGED <<searching, workerPc, storage, currentEvalFileName, searches>>
    /\ UNCHANGED <<everLoaded, loadedFrom>>
    /\ UNCHANGED nonConcVars

\* NNUE::init: an iteration that loads nothing
InitSkip ==
    /\ ~terminated
    /\ uci.pc = "nnue_init"
    /\ ~uci.loading
    /\ ~CallsLoadEval(uci)
    /\ uci' = NextIteration(uci)
    /\ UNCHANGED <<searching, workerPc, storage, currentEvalFileName, optionEvalFile,
                   searches>>
    /\ UNCHANGED <<everLoaded, loadedFrom, initLog>>
    /\ UNCHANGED nonConcVars

\* NNUE::init calls load_eval: initialize() frees and zeroes the tables
LoadEvalBegin ==
    /\ ~terminated
    /\ uci.pc = "nnue_init"
    /\ ~uci.loading
    /\ CallsLoadEval(uci)
    /\ storage' = [storage EXCEPT ![uci.netSize] = "replacing"]
    /\ loadedFrom' = [loadedFrom EXCEPT ![uci.netSize] = Cleared_tables]
    /\ uci' = [uci EXCEPT !.loading = TRUE]
    /\ UNCHANGED <<searching, workerPc, currentEvalFileName, optionEvalFile, searches>>
    /\ UNCHANGED <<everLoaded, initLog>>
    /\ UNCHANGED nonConcVars

\* load_eval returns: the tables are read in, or the stream was refused
LoadEvalEnd ==
    /\ ~terminated
    /\ uci.pc = "nnue_init"
    /\ uci.loading
    /\ \E ok \in BOOLEAN :
          /\ storage' = [storage EXCEPT ![uci.netSize] = IF ok THEN "ready" ELSE "failed"]
          /\ everLoaded' = [everLoaded EXCEPT ![uci.netSize] = @ \/ ok]
          /\ loadedFrom' = IF ok THEN [loadedFrom EXCEPT ![uci.netSize] = eval_file(uci.netSize)]
                           ELSE loadedFrom
          /\ initLog' = [initLog EXCEPT !.attempts =
                            Append(@, [netSize |-> uci.netSize, dir |-> uci.dir,
                                       name |-> eval_file(uci.netSize), ok |-> ok])]
          /\ currentEvalFileName' =
                IF ok THEN [currentEvalFileName EXCEPT ![uci.netSize] = eval_file(uci.netSize)]
                ELSE currentEvalFileName
    /\ uci' = NextIteration(uci)
    /\ UNCHANGED <<searching, workerPc, optionEvalFile, searches>>
    /\ UNCHANGED nonConcVars

\* main() after Threads.set and Search::clear, about to call NNUE::init
InitConc ==
    /\ uci = InNNUEInit("main", Big, Internal, FALSE)
    /\ searching = [t \in SearchThreads |-> FALSE]
    /\ workerPc = [t \in SearchThreads |-> "idle"]
    /\ storage = [n \in NetSizes |-> "null"]
    /\ currentEvalFileName = [n \in NetSizes |-> "None"]
    /\ optionEvalFile = EvalFileDefaultName(Small)
    /\ everLoaded = [n \in NetSizes |-> FALSE]
    /\ loadedFrom = [n \in NetSizes |-> Cleared_tables]
    /\ initLog = [attempts |-> <<>>,
                  atEntry  |-> [n \in NetSizes |-> "None"],
                  request  |-> [n \in NetSizes |-> eval_file(n)],
                  again    |-> [n \in NetSizes |-> FALSE]]
    /\ searches = 0

NoVerify == [done |-> FALSE]

\* the loop of NNUE::verify from netSize on: does it reach exit(EXIT_FAILURE)
RECURSIVE verify_loop(_)
verify_loop(netSize) ==
    IF netSize > Small THEN FALSE
    ELSE IF currentEvalFileName[netSize] # eval_file(netSize) THEN TRUE
    ELSE verify_loop(netSize + 1)

\* NNUE::verify(), called in the command loop before a position is evaluated
Verify ==
    /\ ~terminated
    /\ InLoop
    /\ \E exited \in {verify_loop(Big)} :
          /\ terminated' = exited
          /\ lastVerify' = [done |-> TRUE, exited |-> exited,
                            request  |-> [n \in NetSizes |-> eval_file(n)],
                            recorded |-> currentEvalFileName,
                            loaded   |-> everLoaded,
                            storage  |-> storage]
    /\ UNCHANGED concVars
    /\ UNCHANGED nonVerifyVars

InitVerify ==
    /\ terminated = FALSE
    /\ lastVerify = NoVerify

VerifyAtRest == InitVerify

---------------------------------------------------------------------------
(* Integers on a byte stream (nnue_common.h).  An unsigned integer of n    *)
(* bytes is held by its n base-256 digits, least significant first, so     *)
(* that shifts and truncations keep its width; a signed value is a TLA+    *)
(* integer.                                                                *)

MaxCount == 2

Pow256(i) == IF i = 0 THEN 1 ELSE IF i = 1 THEN 256 ELSE IF i = 2 THEN 65536 ELSE 16777216

\* byte i (0 the least significant) of the two's complement form of x
ByteOf(x, i) == (x \div Pow256(i)) % 256

\* std::make_unsigned_t<IntType> v = value
make_unsigned(value, size) == [i \in 1 .. size |-> ByteOf(value, i - 1)]

RECURSIVE DigitSum(_, _)
DigitSum(v, n) == IF n = 0 THEN 0 ELSE v[n] * Pow256(n - 1) + DigitSum(v, n - 1)

\* the IntType value whose two's complement digits are v
value_of(v, T) ==
    IF T.signed /\ v[T.size] >= 128
    THEN (v[T.size] - 256) * Pow256(T.size - 1) + DigitSum(v, T.size - 1)
    ELSE DigitSum(v, T.size)

Reverse(u) == [i \in 1 .. Len(u) |-> u[Len(u) + 1 - i]]

\* the bytes of an object of the host, in address order
object_representation(h, v) == IF h = "little" THEN v ELSE Reverse(v)

\* misc.h: the union { uint32_t i; char c[4]; } Le = { 0x01020304 } and
\* IsLittleEndian = (Le.c[0] == 4)
IsLittleEndian_assumed(h) == TRUE
IsLittleEndian(h) == object_representation(h, make_unsigned(16909060, 4))[1] = 4

\* v >>= 8 and std::uint8_t(v)
shift_right_8(v) == Tail(v) \o <<0>>
low_byte(v) == v[1]
\* (v << 8) | byte, kept to the width of v
shift_left_8_or(v, byte) == <<byte>> \o SubSeq(v, 1, Len(v) - 1)

\* write_little_endian, big-endian branch: the loop for i + 1 < sizeof(IntType)
RECURSIVE write_swap_loop(_, _, _)
write_swap_loop(v, u, i) ==
    IF i + 1 < Len(v)
    THEN write_swap_loop(shift_right_8(v), Append(u, low_byte(v)), i + 1)
    ELSE Append(u, low_byte(v))

\* write_little_endian<IntType>(stream, value): the bytes written
write_little_endian_value(h, T, value) ==
    IF IsLittleEndian(h)
    THEN object_representation(h, make_unsigned(value, T.size))
    ELSE write_swap_loop(make_unsigned(value, T.size), <<>>, 0)

\* read_little_endian, big-endian branch: v = (v << 8) | u[sizeof - i - 1]
read_swap_index_forward(size, i) == i + 1
read_swap_index(size, i) == size - i - 1 + 1
RECURSIVE read_swap_loop(_, _, _)
read_swap_loop(u, v, i) ==
    IF i < Len(u)
    THEN read_swap_loop(u, shift_left_8_or(v, u[read_swap_index(Len(u), i)]), i + 1)
    ELSE v

\* read_little_endian<IntType>(stream) on the bytes u the read delivered
read_little_endian_value(h, T, u) ==
    IF IsLittleEndian(h)
    THEN value_of(object_representation(h, u), T)
    ELSE value_of(read_swap_loop(u, [i \in 1 .. T.size |-> 0], 0), T)

\* write_little_endian(stream, values, count)
RECURSIVE write_little_endian_count(_, _, _)
write_little_endian_count(h, T, vals) ==
    IF IsLittleEndian(h)
    THEN IF vals = <<>> THEN <<>>
         ELSE object_representation(h, make_unsigned(Head(vals), T.size))
                 \o write_little_endian_count(h, T, Tail(vals))
    ELSE IF vals = <<>> THEN <<>>
         ELSE write_little_endian_value(h, T, Head(vals))
                 \o write_little_endian_count(h, T, Tail(vals))

\* read_little_endian(stream, out, count) on the bytes the reads delivered
read_little_endian_count(h, T, u) ==
    [k \in 1 .. (Len(u) \div T.size) |->
        IF IsLittleEndian(h)
        THEN value_of(object_representation(h, SubSeq(u, (k - 1) * T.size + 1, k * T.size)), T)
        ELSE read_little_endian_value(h, T, SubSeq(u, (k - 1) * T.size + 1, k * T.size))]

Hosts == {"little", "big"}
IntTypes == [size : {1, 2, 4}, signed : BOOLEAN]

INT32_MIN == -2147483647 - 1

\* values of each type: the ends of its range and values whose bytes differ
Samples(T) ==
    IF T.size = 1 THEN (IF T.signed THEN {-128, -1, 0, 1, 18, 127} ELSE {0, 1, 18, 128, 255})
    ELSE IF T.size = 2
    THEN (IF T.signed THEN {-32768, -256, -1, 0, 1, 4660, 32767}
                      ELSE {0, 1, 255, 256, 4660, 32768, 65535})
    ELSE (IF T.signed THEN {INT32_MIN, -16909060, -1, 0, 1, 16909060, Version, INT_MAX}
                      ELSE {0, 1, 256, 65536, 16909060, Version, INT_MAX})

Arrays(T) == UNION {[1 .. n -> Samples(T)] : n \in 1 .. MaxCount}

\* write_little_endian<IntType>(stream, value)
WriteLittleEndian ==
    /\ written = <<>>
    /\ Len(values) = 1
    /\ written' = write_little_endian_value(host, intType, values[1])
    /\ UNCHANGED <<host, intType, values, readBack>>
    /\ UNCHANGED nonBytesVars

\* write_little_endian<IntType>(stream, values, count)
WriteLittleEndianCount ==
    /\ written = <<>>
    /\ written' = write_little_endian_count(host, intType, values)
    /\ UNCHANGED <<host, intType, values, readBack>>
    /\ UNCHANGED nonBytesVars

\* read_little_endian<IntType>(stream) on a stream holding the bytes written
ReadLittleEndian ==
    /\ written # <<>>
    /\ Len(written) = intType.size
    /\ readBack' = <<read_little_endian_value(host, intType, written)>>
    /\ UNCHANGED <<host, intType, values, written>>
    /\ UNCHANGED nonBytesVars

\* read_little_endian<IntType>(stream, out, count) on those bytes
ReadLittleEndianCount ==
    /\ written # <<>>
    /\ readBack' = read_little_endian_count(host, intType, written)
    /\ UNCHANGED <<host, intType, values, written>>
    /\ UNCHANGED nonBytesVars

InitBytes ==
    /\ host \in Hosts
    /\ intType \in IntTypes
    /\ values \in Arrays(intType)
    /\ written = <<>>
    /\ readBack = <<>>

BytesAtRest ==
    /\ host = "little"
    /\ intType = [size |-> 4, signed |-> FALSE]
    /\ values = <<Version>>
    /\ written = <<>>
    /\ readBack = <<>>

---------------------------------------------------------------------------
(* read_leb_128 and write_leb_128 (nnue_common.h) for IntType std::int16_t *)
(* and std::int32_t (bits = 16, 32), and the reader of a compressed         *)
(* parameter array that calls read_leb_128.  A stream holds bytes.          *)

\* "COMPRESSED_LEB128"
Leb128MagicString ==
    <<67, 79, 77, 80, 82, 69, 83, 83, 69, 68, 95, 76, 69, 66, 49, 50, 56>>
Leb128MagicStringSize == 17
BUF_SIZE == 4096
Uint32 == [size |-> 4, signed |-> FALSE]

Pow2(n) == 2 ^ n

Min(a, b) == IF a < b THEN a ELSE b

\* std::int16_t(x) for an int x
to_int16(x) == ((x + 32768) % 65536) - 32768

\* IntType(x) for an int x
to_IntType(bits, x) == IF bits = 16 THEN to_int16(x) ELSE x

\* what a build makes of a left shift that overflows: the low 32 bits, or
\* anything else
ShlOutcomes == {"wraps", "zero"}

\* E1 << E2 of int E1 >= 0 is defined when E1 * 2^E2 fits unsigned int
shl_defined(e1, e2) == e2 < 28 \/ e1 < 16

\* the low 32 bits of e1 * 2^e2 as an int
shl_wrapped(e1, e2) ==
    IF e2 < 28 THEN e1 * Pow2(e2)
    ELSE (IF e1 % 16 < 8 THEN e1 % 16 ELSE (e1 % 16) - 16) * Pow2(28)

\* (byte & 0x7f) << shift
shl(e1, e2, ub) ==
    IF shl_defined(e1, e2) \/ ub = "wraps" THEN shl_wrapped(e1, e2) ELSE 0

\* buf[buf_pos], a byte never written when the last read delivered fewer
\* than buf_pos + 1 bytes
buffer_at(d, g) == IF d.buf_pos < Len(d.buf) THEN d.buf[d.buf_pos + 1] ELSE g

\* if (buf_pos == BUF_SIZE) { stream.read(buf, min(bytes_left, BUF_SIZE)); buf_pos = 0; }
\* bytes_left is unsigned: below zero it stands for a number near 2^32
refill(d, g) ==
    IF d.buf_pos # BUF_SIZE THEN d
    ELSE LET n == IF d.bytes_left < 0 THEN BUF_SIZE ELSE Min(d.bytes_left, BUF_SIZE)
             r == stream_read(d.stream, [i \in 1 .. n |-> g], n)
         IN  [d EXCEPT !.stream = r.stream, !.buf = SubSeq(r.values, 1, r.got),
                       !.buf_pos = 0]

\* out[i] once a byte without the continuation bit arrived
sign_extended(bits, result, shift, byte) ==
    IF bits <= shift \/ (byte \div 64) % 2 = 0
    THEN result
    ELSE to_IntType(bits, (result % Pow2(shift)) - Pow2(shift))

\* the do-while loop of one element: [d, assigned, value]
RECURSIVE decode_element(_, _, _, _, _, _)
decode_element(bits, d, result, shift, g, ub) ==
    LET f      == refill(d, g)
        byte   == buffer_at(f, g)
        next   == [f EXCEPT !.buf_pos = f.buf_pos + 1, !.bytes_left = f.bytes_left - 1]
        merged == to_IntType(bits, result + shl(byte % 128, shift, ub))
    IN  IF byte < 128
        THEN [d |-> next, assigned |-> TRUE,
              value |-> sign_extended(bits, merged, shift + 7, byte)]
        ELSE IF shift + 7 < bits THEN decode_element(bits, next, merged, shift + 7, g, ub)
        ELSE [d |-> next, assigned |-> FALSE, value |-> 0]

\* the loop over i < count
RECURSIVE decode_elements(_, _, _, _, _, _, _)
decode_elements(bits, d, out, i, count, g, ub) ==
    IF i > count THEN [d |-> d, out |-> out]
    ELSE LET e == decode_element(bits, d, 0, 0, g, ub)
         IN  decode_elements(bits, e.d,
                             IF e.assigned THEN [out EXCEPT ![i] = e.value] ELSE out,
                             i + 1, count, g, ub)

\* read_leb_128<IntType>(stream, out, count), after the magic string was
\* read into leb128MagicString
read_leb_128_body(bits, magic, out, count, g, ndebug, ub) ==
    IF ~ndebug /\ magic.values # Leb128MagicString
    THEN [outcome |-> "aborted", stream |-> magic.stream, out |-> out, bytes_left |-> 0]
    ELSE LET left == stream_read(magic.stream, <<g, g, g, g>>, 4)
             r == decode_elements(bits, [stream |-> left.stream, buf |-> <<>>, buf_pos |-> BUF_SIZE,
                                   bytes_left |-> read_little_endian_value(host, Uint32, left.values)],
                                  out, 1, count, g, ub)
         IN  IF ~ndebug /\ r.d.bytes_left # 0
             THEN [outcome |-> "aborted", stream |-> r.d.stream, out |-> r.out,
                   bytes_left |-> r.d.bytes_left]
             ELSE [outcome |-> "returned", stream |-> r.d.stream, out |-> r.out,
                   bytes_left |-> r.d.bytes_left]

read_leb_128(bits, s, out, count, g, ndebug, ub) ==
    read_leb_128_body(bits,
        stream_read(s, [i \in 1 .. Leb128MagicStringSize |-> g], Leb128MagicStringSize),
        out, count, g, ndebug, ub)

\* the reader of one compressed array: read_leb_128, then return !stream.fail()
read_parameters_leb(s, out, count, g, ndebug) ==
    IF read_leb_128(16, s, out, count, g, ndebug, "wraps").outcome = "aborted"
    THEN [outcome |-> "aborted"]
    ELSE [outcome |-> "returned",
          ok |-> ~read_leb_128(16, s, out, count, g, ndebug, "wraps").stream.fail,
          out |-> read_leb_128(16, s, out, count, g, ndebug, "wraps").out]

\* arrays of two int16 with their encodings
LebArrays ==
    { [values |-> <<1, -2>>,       bytes |-> <<1, 126>>],
      [values |-> <<300, -300>>,   bytes |-> <<172, 2, 212, 125>>],
      [values |-> <<-64, 63>>,     bytes |-> <<64, 63>>],
      [values |-> <<32767, -32768>>, bytes |-> <<255, 255, 1, 128, 128, 126>>] }

LebFile(magic, a) == magic \o <<Len(a.bytes), 0, 0, 0>> \o a.bytes

GoodLebFiles == {LebFile(Leb128MagicString, a) : a \in LebArrays}

\* the magic string with one character replaced
WrongMagics ==
    {[Leb128MagicString EXCEPT ![k] = 99] : k \in 1 .. Leb128MagicStringSize}

WrongMagicFiles == {LebFile(w, a) : w \in WrongMagics, a \in LebArrays}

CutLebFiles ==
    {SubSeq(f, 1, n) : f \in GoodLebFiles, n \in {0, 5, 16, 17, 19, 21, 22}}

LebStreams == {IStream(f) : f \in GoodLebFiles \cup WrongMagicFiles \cup CutLebFiles}

NoDecode == [op |-> "none"]

\* what out holds before the call
LebOutBefore == <<0, 0>>

\* read_leb_128<std::int16_t>(stream, out, count)
ReadLeb128 ==
    /\ lebResult = NoDecode
    /\ \E r \in {read_leb_128(16, lebStream, LebOutBefore, Len(LebOutBefore), lebGarbage,
                                build, "wraps")} :
          lebResult' = [op |-> "read_leb_128", outcome |-> r.outcome,
                        fail |-> r.stream.fail, out |-> r.out]
    /\ UNCHANGED <<build, lebStream, lebGarbage>>
    /\ UNCHANGED nonLebVars

\* the reader of a compressed parameter array, whose result the load returns
ReadParametersLeb ==
    /\ lebResult = NoDecode
    /\ \E r \in {read_parameters_leb(lebStream, LebOutBefore, Len(LebOutBefore), lebGarbage, build)} :
          lebResult' = [op |-> "read_parameters", outcome |-> r.outcome,
                        ok |-> IF r.outcome = "returned" THEN r.ok ELSE FALSE,
                        out |-> IF r.outcome = "returned" THEN r.out ELSE <<>>]
    /\ UNCHANGED <<build, lebStream, lebGarbage>>
    /\ UNCHANGED nonLebVars

InitLeb ==
    /\ build \in BOOLEAN
    /\ lebStream \in LebStreams
    /\ lebGarbage \in {0, 127}
    /\ lebResult = NoDecode

LebAtRest ==
    /\ build = TRUE
    /\ lebStream = IStream(<<>>)
    /\ lebGarbage = 0
    /\ lebResult = NoDecode

---------------------------------------------------------------------------
(* ClippedReLU::propagate (layers/clipped_relu.h) in each build            *)

WeightScaleBits == 6

BuildPaths == {"scalar", "sse2", "sse41", "avx2", "neon"}

SimdWidth(path) == IF path = "avx2" THEN 32 ELSE 16

\* ClippedReLU<FC_0_OUTPUTS + 1> and ClippedReLU<FC_1_OUTPUTS>
InstantiatedDims == {16, 32}

clamp(v, lo, hi) == IF v < lo THEN lo ELSE IF v > hi THEN hi ELSE v

\* x >> n on a signed integer
shift_right(x, n) == x \div (2 ^ n)

saturate_int16(x) == clamp(x, -32768, 32767)
saturate_int8(x) == clamp(x, -128, 127)

\* in[k] for vectors of w elements
load(input, w, k) == SubSeq(input, k * w + 1, k * w + w)

\* 128-bit operations
packs_epi32(a, b) == [k \in 1 .. 8 |-> saturate_int16(IF k <= 4 THEN a[k] ELSE b[k - 4])]
packs_epi16(a, b) == [k \in 1 .. 16 |-> saturate_int8(IF k <= 8 THEN a[k] ELSE b[k - 8])]
srai_epi16(v, n) == [k \in DOMAIN v |-> shift_right(v[k], n)]
max_epi8(v, z) == [k \in DOMAIN v |-> IF v[k] > z[k] THEN v[k] ELSE z[k]]
adds_epi8(v, c) == [k \in DOMAIN v |-> saturate_int8(v[k] + c[k])]
subs_epi8(v, c) == [k \in DOMAIN v |-> saturate_int8(v[k] - c[k])]
set1_epi8(n, c) == [k \in 1 .. n |-> c]

\* 256-bit operations work on the two 128-bit lanes separately
lane(v, h) == SubSeq(v, h * (Len(v) \div 2) + 1, (h + 1) * (Len(v) \div 2))
mm256_packs_epi32(a, b) ==
    packs_epi32(lane(a, 0), lane(b, 0)) \o packs_epi32(lane(a, 1), lane(b, 1))
mm256_packs_epi16(a, b) ==
    packs_epi16(lane(a, 0), lane(b, 0)) \o packs_epi16(lane(a, 1), lane(b, 1))

\* _mm256_set_epi32(7, 3, 6, 2, 5, 1, 4, 0), lowest element first
Offsets_identity == <<0, 1, 2, 3, 4, 5, 6, 7>>
Offsets == <<0, 4, 1, 5, 2, 6, 3, 7>>

\* _mm256_permutevar8x32_epi32 on a vector of 32 bytes
permutevar8x32_epi32(v, idx) ==
    [k \in 1 .. 32 |-> v[4 * idx[((k - 1) \div 4) + 1] + ((k - 1) % 4) + 1]]

\* NEON
vqshrn_n_s32(v, n) == [k \in DOMAIN v |-> saturate_int16(shift_right(v[k], n))]
vqmovn_s16(v) == [k \in DOMAIN v |-> saturate_int8(v[k])]

\* the value stored to out[i] in the 128-bit loops (SSE2, SSE4.1, and AVX2
\* when InputDimensions is not a multiple of 32)
chunk_128(input, i, sse41) ==
    LET words0 == srai_epi16(packs_epi32(load(input, 4, i * 4 + 0), load(input, 4, i * 4 + 1)),
                             WeightScaleBits)
        words1 == srai_epi16(packs_epi32(load(input, 4, i * 4 + 2), load(input, 4, i * 4 + 3)),
                             WeightScaleBits)
        packedbytes == packs_epi16(words0, words1)
    IN  IF sse41 THEN max_epi8(packedbytes, set1_epi8(16, 0))
        ELSE subs_epi8(adds_epi8(packedbytes, set1_epi8(16, -128)), set1_epi8(16, -128))

\* the value stored to out[i] in the 256-bit loop
chunk_256(input, i) ==
    LET words0 == srai_epi16(mm256_packs_epi32(load(input, 8, i * 4 + 0), load(input, 8, i * 4 + 1)),
                             WeightScaleBits)
        words1 == srai_epi16(mm256_packs_epi32(load(input, 8, i * 4 + 2), load(input, 8, i * 4 + 3)),
                             WeightScaleBits)
    IN  permutevar8x32_epi32(max_epi8(mm256_packs_epi16(words0, words1), set1_epi8(32, 0)),
                             Offsets)

\* the value stored to out[i] in the NEON loop
chunk_neon(input, i) ==
    LET shifted == vqshrn_n_s32(load(input, 4, i * 2 + 0), WeightScaleBits)
                   \o vqshrn_n_s32(load(input, 4, i * 2 + 1), WeightScaleBits)
    IN  max_epi8(vqmovn_s16(shifted), set1_epi8(8, 0))

\* the number of elements one iteration of the vector loop writes
ChunkWidth(path, dims) ==
    CASE path = "avx2" -> IF dims % SimdWidth(path) = 0 THEN SimdWidth(path)
                          ELSE SimdWidth(path) \div 2
      [] path \in {"sse2", "sse41"} -> SimdWidth(path)
      [] path = "neon" -> SimdWidth(path) \div 2
      [] OTHER -> 1

\* Start, the first element left to the scalar loop
Start(path, dims) ==
    IF path = "scalar" THEN 0 ELSE (dims \div ChunkWidth(path, dims)) * ChunkWidth(path, dims)

chunk(path, input, i) ==
    CASE path = "avx2" -> IF Len(input) % SimdWidth(path) = 0 THEN chunk_256(input, i)
                          ELSE chunk_128(input, i, TRUE)
      [] path = "sse41" -> chunk_128(input, i, TRUE)
      [] path = "sse2" -> chunk_128(input, i, FALSE)
      [] OTHER -> chunk_neon(input, i)

\* output[i] = static_cast<OutputType>(std::clamp(input[i] >> WeightScaleBits, 0, 127))
scalar_element(x) == clamp(shift_right(x, WeightScaleBits), 0, 127)

\* ClippedReLU<InDims>::ClippedReLU_propagate(input, output): the first InDims bytes of output
ClippedReLU_propagate(path, input) ==
    [k \in 1 .. Len(input) |->
        IF k - 1 < Start(path, Len(input))
        THEN chunk(path, input, (k - 1) \div ChunkWidth(path, Len(input)))
                  [((k - 1) % ChunkWidth(path, Len(input))) + 1]
        ELSE scalar_element(input[k])]

ReluSamples ==
    {INT32_MIN, -2147483647, -2097152, -32769, -32768, -65, -64, -1, 0, 1, 63, 64, 65,
     8127, 8128, 8191, 8192, 32767, 32768, 2097151, 2097152, 2147483647}

\* inputs whose outputs differ from element to element, one element replaced
ReluBase(dims) == [k \in 1 .. dims |-> 64 * k + (k % 64)]

ReluInputs ==
    {[ReluBase(dims) EXCEPT ![j] = s] :
        <<dims, j, s>> \in {t \in InstantiatedDims \X (1 .. 32) \X ReluSamples : t[2] <= t[1]}}

Propagate ==
    /\ reluOutput = <<>>
    /\ reluOutput' = ClippedReLU_propagate(buildPath, reluInput)
    /\ UNCHANGED <<buildPath, reluInput>>
    /\ UNCHANGED nonReluVars

InitRelu ==
    /\ buildPath \in BuildPaths
    /\ reluInput \in ReluInputs
    /\ reluOutput = <<>>

ReluAtRest ==
    /\ buildPath = "scalar"
    /\ reluInput = <<>>
    /\ reluOutput = <<>>

---------------------------------------------------------------------------
(* Eval::trace (evaluate.cpp) and NNUE::trace (evaluate_nnue.cpp), step by *)
(* step over the squares of the board                                      *)

ALL_PIECES == 0
VALUE_ZERO == 0

\* pieceCount as Position::set leaves it after put_piece for every piece
PieceCountOf(b) ==
    [i \in 0 .. (PIECE_NB - 1) |->
        IF i % 8 = ALL_PIECES
        THEN Cardinality({s \in Squares : b[s] # NO_PIECE /\ color_of(b[s]) = i \div 8})
        ELSE Cardinality({s \in Squares : b[s] = i})]

\* Position::put_piece without the per-colour total
Position_put_piece_no_total(p, pc, s) ==
    [p EXCEPT !.board = put_piece(p.board, pc, s),
              !.pieceCount = [p.pieceCount EXCEPT ![pc] = @ + 1]]

\* Position::put_piece
Position_put_piece(p, pc, s) ==
    [p EXCEPT !.board = put_piece(p.board, pc, s),
              !.pieceCount = [[p.pieceCount EXCEPT ![pc] = @ + 1]
                                 EXCEPT ![make_piece(color_of(pc), ALL_PIECES)] = @ + 1]]

\* Position::remove_piece
Position_remove_piece(p, s) ==
    [p EXCEPT !.board = remove_piece(p.board, s),
              !.pieceCount = [[p.pieceCount EXCEPT ![p.board[s]] = @ - 1]
                                 EXCEPT ![make_piece(color_of(p.board[s]), ALL_PIECES)] = @ - 1]]

\* the bucket NNUE::evaluate and trace_evaluate take for the position
trace_bucket(p) ==
    bucket_of([pieces |-> [c \in Colors |-> p.pieceCount[make_piece(c, ALL_PIECES)]]])

\* the square of the k-th iteration: files outside, ranks inside
trace_square(k) == make_square(k \div 8, k % 8)

\* the initial position
StartBoard ==
    [s \in Squares |->
        LET back == <<ROOK, KNIGHT, BISHOP, QUEEN, KING, BISHOP, KNIGHT, ROOK>>
        IN  CASE rank_of(s) = 0 -> make_piece(WHITE, back[file_of(s) + 1])
              [] rank_of(s) = 1 -> make_piece(WHITE, PAWN)
              [] rank_of(s) = 6 -> make_piece(BLACK, PAWN)
              [] rank_of(s) = 7 -> make_piece(BLACK, back[file_of(s) + 1])
              [] OTHER -> NO_PIECE]

\* the squares cleared one after the other to thin the initial position
\* out; no piece gives check from its initial square
Cleared ==
    <<8, 55, 1, 62, 9, 54, 2, 61, 10, 53, 0, 63, 11, 52, 3, 59, 12, 51, 5, 58,
      13, 50, 6, 57, 14, 49, 7, 56, 15, 48>>

ThinnedBoard(n) ==
    [s \in Squares |-> IF \E k \in 1 .. n : Cleared[k] = s THEN NO_PIECE ELSE StartBoard[s]]

\* 4k3/8/8/4r3/8/8/8/4K3 w - - 0 1: the side to move is in check
CheckBoard ==
    BoardOf({ <<4, make_piece(WHITE, KING)>>, <<60, make_piece(BLACK, KING)>>,
              <<36, make_piece(BLACK, ROOK)>> })

TracePosition(b, inCheck) == [board |-> b, pieceCount |-> PieceCountOf(b), checkers |-> inCheck]

TracePositions ==
    {TracePosition(ThinnedBoard(n), FALSE) : n \in 0 .. Len(Cleared)}
        \cup {TracePosition(CheckBoard, TRUE)}

ThreadStates ==
    [bestValue : {VALUE_ZERO, 35}, rootSimpleEval : {VALUE_ZERO, -80},
     optimism : {[c \in Colors |-> VALUE_ZERO], [c \in Colors |-> IF c = WHITE THEN 12 ELSE -12]}]

TraceIdle == [phase |-> "idle", k |-> 0, pc |-> NO_PIECE, base |-> 0, bucket |-> 0]

\* Eval::trace: if (pos.checkers()) return "Final evaluation: none (in check)"
EvalTraceInCheck ==
    /\ traceAt.phase = "idle"
    /\ tracePos.checkers
    /\ traceAt' = [traceAt EXCEPT !.phase = "done"]
    /\ UNCHANGED <<tracePos, traceThread, traceComputed, traceEntry>>
    /\ UNCHANGED nonTraceVars

\* Eval::trace up to the loop of NNUE::trace: the thread's values are reset
\* and the base evaluation computes the accumulator
EvalTraceBegin ==
    /\ traceAt.phase = "idle"
    /\ ~tracePos.checkers
    /\ traceThread' = [bestValue |-> VALUE_ZERO, rootSimpleEval |-> VALUE_ZERO,
                       optimism |-> [c \in Colors |-> VALUE_ZERO]]
    /\ traceComputed' = [c \in Colors |-> TRUE]
    /\ traceAt' = [phase |-> "loop", k |-> 0, pc |-> NO_PIECE,
                   base |-> trace_bucket(tracePos), bucket |-> trace_bucket(tracePos)]
    /\ UNCHANGED <<tracePos, traceEntry>>
    /\ UNCHANGED nonTraceVars

\* an iteration over an empty square or a king: only writeSquare
TraceSkipSquare ==
    /\ traceAt.phase = "loop"
    /\ traceAt.k < SQUARE_NB
    /\ \/ tracePos.board[trace_square(traceAt.k)] = NO_PIECE
       \/ type_of(tracePos.board[trace_square(traceAt.k)]) = KING
    /\ traceAt' = [traceAt EXCEPT !.k = @ + 1]
    /\ UNCHANGED <<tracePos, traceThread, traceComputed, traceEntry>>
    /\ UNCHANGED nonTraceVars

\* first half of an iteration over a piece: remove_piece, computed = false,
\* evaluate<false>(pos)
TraceRemovePiece ==
    /\ traceAt.phase = "loop"
    /\ traceAt.k < SQUARE_NB
    /\ tracePos.board[trace_square(traceAt.k)] # NO_PIECE
    /\ type_of(tracePos.board[trace_square(traceAt.k)]) # KING
    /\ tracePos' = Position_remove_piece(tracePos, trace_square(traceAt.k))
    /\ traceComputed' = [c \in Colors |-> TRUE]
    /\ traceAt' = [traceAt EXCEPT !.phase = "removed",
                                  !.pc = tracePos.board[trace_square(traceAt.k)],
                                  !.bucket = trace_bucket(tracePos')]
    /\ UNCHANGED <<traceThread, traceEntry>>
    /\ UNCHANGED nonTraceVars

\* second half: put_piece(pc, sq), computed = false, writeSquare
TracePutBack ==
    /\ traceAt.phase = "removed"
    /\ tracePos' = Position_put_piece(tracePos, traceAt.pc, trace_square(traceAt.k))
    /\ traceComputed' = [c \in Colors |-> FALSE]
    /\ traceAt' = [traceAt EXCEPT !.phase = "loop", !.k = @ + 1, !.pc = NO_PIECE]
    /\ UNCHANGED <<traceThread, traceEntry>>
    /\ UNCHANGED nonTraceVars

\* after the loop: trace_evaluate, then NNUE::evaluate and evaluate in
\* Eval::trace, which compute the accumulator and read the thread's optimism
EvalTraceEnd ==
    /\ traceAt.phase = "loop"
    /\ traceAt.k = SQUARE_NB
    /\ traceComputed' = [c \in Colors |-> TRUE]
    /\ traceAt' = [traceAt EXCEPT !.phase = "done", !.bucket = trace_bucket(tracePos)]
    /\ UNCHANGED <<tracePos, traceThread, traceEntry>>
    /\ UNCHANGED nonTraceVars

InitTrace ==
    /\ tracePos \in TracePositions
    /\ traceThread \in ThreadStates
    /\ traceComputed \in {[c \in Colors |-> FALSE], [c \in Colors |-> TRUE]}
    /\ traceAt = TraceIdle
    /\ traceEntry = [pos |-> tracePos, thread |-> traceThread]

TraceAtRest ==
    /\ tracePos = TracePosition(CheckBoard, TRUE)
    /\ traceThread = [bestValue |-> VALUE_ZERO, rootSimpleEval |-> VALUE_ZERO,
                      optimism |-> [c \in Colors |-> VALUE_ZERO]]
    /\ traceComputed = [c \in Colors |-> FALSE]
    /\ traceAt = TraceIdle
    /\ traceEntry = [pos |-> tracePos, thread |-> traceThread]

---------------------------------------------------------------------------
(* The blend and the damping of Eval::evaluate on values of their own       *)

\* the largest magnitude of (...) / 1024 on an int, the value before damping
MaxBlended == INT_MAX \div 1024

BlendInputs ==
    [optimism : {-30000, -120, -1, 0, 1, 120, 30000},
     complexity : {0, 1, 511, 512, 32767, 32768, 70000},
     simpleEval : {-2700, -1050, 0, 208, 2700},
     nnue : {-40000, -1000, -1, 0, 1, 1000, 40000}]

\* rule50_count() while the fifty-move rule has not ended the game
DampInputs ==
    [v : {-MaxBlended, -31507, -2701, -215, -214, -2, -1, 0, 1, 2, 107, 214,
          215, 2701, 31507, MaxBlended},
     rule50 : 0 .. MaxRule50]

NoBlend == [done |-> FALSE]
NoDamp == [done |-> FALSE]

\* Eval::evaluate, network path: the two adjustments
BlendStep ==
    /\ ~blendOut.done
    /\ \E signal \in {blend_signal(Val(blendIn.complexity), blendIn.simpleEval,
                                   Val(blendIn.nnue))} :
          blendOut' = [done |-> TRUE, signal |-> signal,
                       optimism |-> adjust_optimism(Val(blendIn.optimism), signal),
                       nnue |-> adjust_nnue(Val(blendIn.nnue), signal)]
    /\ UNCHANGED <<blendIn, dampIn, dampOut>>
    /\ UNCHANGED nonArithVars

\* Eval::evaluate: v = v * (200 - shuffling) / 214
DampStep ==
    /\ ~dampOut.done
    /\ dampOut' = [done |-> TRUE, v |-> Damp(Val(dampIn.v), dampIn.rule50)]
    /\ UNCHANGED <<blendIn, blendOut, dampIn>>
    /\ UNCHANGED nonArithVars

BlendAtRest == [optimism |-> 0, complexity |-> 0, simpleEval |-> 0, nnue |-> 0]
DampAtRest == [v |-> 0, rule50 |-> 0]

InitArith ==
    /\ \/ blendIn \in BlendInputs /\ dampIn = DampAtRest
       \/ blendIn = BlendAtRest /\ dampIn \in DampInputs
    /\ blendOut = NoBlend
    /\ dampOut = NoDamp

ArithAtRest ==
    /\ blendIn = BlendAtRest
    /\ blendOut = NoBlend
    /\ dampIn = DampAtRest
    /\ dampOut = NoDamp

---------------------------------------------------------------------------
(* SqrClippedReLU::propagate (layers/sqr_clipped_relu.h)                    *)

\* SqrClippedReLU<FC_0_OUTPUTS + 1>
SqrInstantiatedDims == {16}

\* the build paths: USE_SSE2 defined, or not
SqrBuildPaths == {"scalar", "sse2"}

Limb == 2 ^ 15

\* (long long) x * x as five limbs of 15 bits, least significant first; the
\* magnitude of x is a2 * 2^30 + a1 * 2^15 + a0
square_ll(x) ==
    LET m  == IF x = INT32_MIN THEN [a2 |-> 2, a1 |-> 0, a0 |-> 0]
              ELSE [a2 |-> Abs(x) \div (Limb * Limb), a1 |-> (Abs(x) \div Limb) % Limb,
                    a0 |-> Abs(x) % Limb]
        p0 == m.a0 * m.a0
        p1 == 2 * m.a0 * m.a1
        p2 == 2 * m.a0 * m.a2 + m.a1 * m.a1
        p3 == 2 * m.a1 * m.a2
        p4 == m.a2 * m.a2
        c1 == p1 + (p0 \div Limb)
        c2 == p2 + (c1 \div Limb)
        c3 == p3 + (c2 \div Limb)
        c4 == p4 + (c3 \div Limb)
    IN  <<p0 % Limb, c1 % Limb, c2 % Limb, c3 % Limb, c4>>

\* the product is below 2^63
fits_long_long(d) == d[5] < 8

\* std::min(127ll, d >> 19) for the limbs d: 19 = 15 + 4
min_127_shifted(d) ==
    IF d[5] > 0 \/ d[4] > 0 \/ d[3] > 0 THEN 127
    ELSE IF d[2] \div 16 > 127 THEN 127 ELSE d[2] \div 16

\* output[i] = static_cast<OutputType>(std::min(127ll, ((long long) input[i] * input[i]) >> (2 * WeightScaleBits + 7)))
sqr_scalar_element(x) == min_127_shifted(square_ll(x))

\* 128-bit operations on 16-bit elements
mullo_epi16(a, b) == [k \in DOMAIN a |-> ((((a[k] * b[k]) % 65536) + 32768) % 65536) - 32768]
mulhi_epi16(a, b) == [k \in DOMAIN a |-> (a[k] * b[k]) \div 65536]
srli_epi16(v, n) == [k \in DOMAIN v |-> ((v[k] + 65536) % 65536) \div (2 ^ n)]

\* the value stored to out[i] in the SSE2 loop
sqr_chunk_128(input, i) ==
    LET words0 == packs_epi32(load(input, 4, i * 4 + 0), load(input, 4, i * 4 + 1))
        words1 == packs_epi32(load(input, 4, i * 4 + 2), load(input, 4, i * 4 + 3))
    IN  packs_epi16(srli_epi16(mulhi_epi16(words0, words0), 3),
                    srli_epi16(mulhi_epi16(words1, words1), 3))

\* Start = NumChunks * 16, or 0
SqrStart(path, dims) == IF path = "sse2" THEN (dims \div 16) * 16 ELSE 0

\* SqrClippedReLU<InDims>::propagate(input, output): the first InDims bytes
SqrClippedReLU_propagate(path, input) ==
    [k \in 1 .. Len(input) |->
        IF k - 1 < SqrStart(path, Len(input))
        THEN sqr_chunk_128(input, (k - 1) \div 16)[((k - 1) % 16) + 1]
        ELSE sqr_scalar_element(input[k])]

SqrSamples ==
    {INT32_MIN, -2147483647, -65536, -46341, -32769, -32768, -32767, -8192, -8191, -725,
     -724, -1, 0, 1, 724, 725, 8191, 8192, 32767, 32768, 32769, 46341, 65536, 2147483647}

SqrBase(dims) == [k \in 1 .. dims |-> (IF k % 2 = 0 THEN 1 ELSE -1) * (500 * k + 300)]

SqrInputs ==
    {[SqrBase(dims) EXCEPT ![j] = s] :
        <<dims, j, s>> \in {t \in SqrInstantiatedDims \X (1 .. 16) \X SqrSamples : t[2] <= t[1]}}

SqrPropagate ==
    /\ reluOutput = <<>>
    /\ reluOutput' = SqrClippedReLU_propagate(buildPath, reluInput)
    /\ UNCHANGED <<buildPath, reluInput>>
    /\ UNCHANGED nonReluVars

InitSqr ==
    /\ buildPath \in SqrBuildPaths
    /\ reluInput \in SqrInputs
    /\ reluOutput = <<>>

---------------------------------------------------------------------------
(* hint_common_parent_position (evaluate_nnue.cpp) next to Eval::evaluate   *)

\* Position::simple_eval()
Position_simple_eval(p) ==
    PawnValue * (count_PAWN(p, p.sideToMove) - count_PAWN(p, Other(p.sideToMove)))
      + (non_pawn_material(p, p.sideToMove) - non_pawn_material(p, Other(p.sideToMove)))

\* the net whose feature transformer gets hint_common_access(pos)
hint_common_parent_position(p) ==
    IF Abs(Position_simple_eval(p)) > 1500 THEN Small ELSE Big

Army1500a == Army(1, 5901, 5)        \* (1, 0, 1, 0, 2)
Army1500b == Army(0, 4609, 5)        \* (0, 1, 0, 3, 0)
Army1501a == Army(0, 5901, 4)        \* (0, 0, 1, 0, 2)
Army1501b == Army(0, 4400, 6)        \* (0, 4, 0, 1, 0)

\* material estimates 0, 1050, 1051, 1500, 1501, 2538, 2700, 2701 and their
\* opposites
HintMatchups ==
    { <<StartArmy, StartArmy>>, <<Army1050a, Army1050b>>, <<Army1051a, Army1051b>>,
      <<Army1500a, Army1500b>>, <<Army1501a, Army1501b>>, <<OneQueen, BareKing>>,
      <<Army2700a, Army2700b>>, <<Army2701a, Army2701b>> }

HintPositions ==
    { MakePosition(m, stm, r50) : m \in HintMatchups, stm \in Colors, r50 \in {0, 50} }

\* hint_common_parent_position(pos)
HintCommonParentPosition ==
    /\ hinted = {}
    /\ hinted' = {hint_common_parent_position(pos)}
    /\ UNCHANGED nonHintVars

HintAtRest == hinted = {}

---------------------------------------------------------------------------
(* write_leb_128 (nnue_common.h), and read_leb_128 on what it wrote         *)

LebTypes == {16, 32}

\* the first loop of write_leb_128 for one value: the bytes it counts
RECURSIVE count_value(_)
count_value(value) ==
    LET byte == value % 128
        rest == value \div 128
    IN  IF (IF (byte \div 64) % 2 = 0 THEN rest # 0 ELSE rest # -1)
        THEN 1 + count_value(rest)
        ELSE 1

\* the first loop over i < count
RECURSIVE count_values(_)
count_values(vals) ==
    IF vals = <<>> THEN 0 ELSE count_value(Head(vals)) + count_values(Tail(vals))

\* flush(): the buffer goes to the stream
flush(w) ==
    IF Len(w.buf) > 0 THEN [stream |-> w.stream \o w.buf, buf |-> <<>>] ELSE w

\* write(byte)
write(w, byte) ==
    IF Len(w.buf) + 1 = BUF_SIZE
    THEN flush([w EXCEPT !.buf = Append(@, byte)])
    ELSE [w EXCEPT !.buf = Append(@, byte)]

\* the second loop of write_leb_128 for one value
RECURSIVE write_value(_, _)
write_value(w, value) ==
    LET byte == value % 128
        rest == value \div 128
    IN  IF (IF (byte \div 64) % 2 = 0 THEN rest = 0 ELSE rest = -1)
        THEN write(w, byte)
        ELSE write_value(write(w, byte + 128), rest)

\* the second loop over i < count
RECURSIVE write_values(_, _)
write_values(w, vals) ==
    IF vals = <<>> THEN w ELSE write_values(write_value(w, Head(vals)), Tail(vals))

\* write_leb_128<IntType>(stream, values, count) on an empty stream
write_leb_128(h, vals) ==
    [byte_count |-> count_values(vals),
     stream |-> flush(write_values(
                    [stream |-> Leb128MagicString
                                \o write_little_endian_value(h, Uint32, count_values(vals)),
                     buf |-> <<>>],
                    vals)).stream]

INT32_MAX == INT_MAX

\* values of IntType: around zero, around each change of the number of
\* bytes, the smallest and the largest
LebSamples(bits) ==
    IF bits = 16
    THEN {0, 1, -1, 63, 64, -64, -65, 8191, 8192, -8192, -8193, 32767, -32768}
    ELSE {0, -1, 63, -65, 8192, -8193, 1048575, 1048576, -1048577,
          134217727, 134217728, -134217728, -134217729, INT32_MAX, INT32_MIN}

LebValueArrays(bits) == [1 .. Len(LebOutBefore) -> LebSamples(bits)]

NoWrite == [done |-> FALSE]
NoBack  == [done |-> FALSE]

\* write_leb_128<IntType>(stream, values, count)
WriteLeb128 ==
    /\ ~lebWritten.done
    /\ \E w \in {write_leb_128(host, lebValues)} :
          lebWritten' = [done |-> TRUE, byte_count |-> w.byte_count, stream |-> w.stream]
    /\ UNCHANGED <<lebType, lebValues, lebBack>>
    /\ UNCHANGED nonRoundVars

\* read_leb_128<IntType>(stream, out, count) on the written stream, in a
\* build with or without assert
ReadWrittenLeb128 ==
    /\ lebWritten.done
    /\ ~lebBack.done
    /\ \E ndebug \in BOOLEAN, ub \in ShlOutcomes :
          \E r \in {read_leb_128(lebType, IStream(lebWritten.stream), LebOutBefore,
                                 Len(LebOutBefore), 0, ndebug, ub)} :
              lebBack' = [done |-> TRUE, outcome |-> r.outcome, out |-> r.out,
                          bytes_left |-> r.bytes_left, pos |-> r.stream.pos,
                          fail |-> r.stream.fail, ub |-> ub]
    /\ UNCHANGED <<lebType, lebValues, lebWritten>>
    /\ UNCHANGED nonRoundVars

InitRound ==
    /\ lebType \in LebTypes
    /\ lebValues \in LebValueArrays(lebType)
    /\ lebWritten = NoWrite
    /\ lebBack = NoBack

RoundAtRest ==
    /\ lebType = 16
    /\ lebValues = LebOutBefore
    /\ lebWritten = NoWrite
    /\ lebBack = NoBack

---------------------------------------------------------------------------
(* append_active_indices on boards with the king of the perspective on      *)
(* every square (half_ka_v2_hm.cpp, half_ka_v2_hm.h).                       *)

MaxActiveDimensions == 32

NonKingPieces == {make_piece(c, pt) : c \in Colors, pt \in PAWN .. QUEEN}

\* the ten non-king pieces in turn
NonKingPiece(k) == make_piece((k \div 5) % 2, PAWN + (k % 5))

\* the kings on ksq and oksq, and the n lowest other squares filled with
\* non-king pieces
CrowdedBoard(P, ksq, oksq, n) ==
    [s \in Squares |->
        IF s = ksq THEN make_piece(P, KING)
        ELSE IF s = oksq THEN make_piece(Other(P), KING)
        ELSE IF Cardinality({t \in 0 .. (s - 1) : t # ksq /\ t # oksq}) < n
             THEN NonKingPiece(Cardinality({t \in 0 .. (s - 1) : t # ksq /\ t # oksq}))
             ELSE NO_PIECE]

\* how many pieces stand beside the two kings
Crowds == {0, 7, MaxActiveDimensions - 2}

\* the other king diagonally opposite, or beside the king of the perspective
OtherKingSquares(ksq) == {Xor(ksq, 63), Xor(ksq, 1)}

ActiveInputs ==
    {[Perspective |-> P, board |-> StartBoard] : P \in Colors}
    \cup UNION {{[Perspective |-> P, board |-> CrowdedBoard(P, ksq, oksq, n)] :
                    oksq \in OtherKingSquares(ksq), n \in Crowds} :
                P \in Colors, ksq \in Squares}

NoActive == [done |-> FALSE]

\* HalfKAv2_hm::append_active_indices<Perspective>(pos, active), active empty
AppendActiveIndices ==
    /\ ~activeList.done
    /\ activeList' = [done |-> TRUE,
                      active |-> append_active_indices(activePos.Perspective,
                                                       activePos.board, <<>>)]
    /\ UNCHANGED activePos
    /\ UNCHANGED nonActiveVars

InitActive ==
    /\ activePos \in ActiveInputs
    /\ activeList = NoActive

\* no position under study
ActiveAtRest ==
    /\ activePos = [Perspective |-> WHITE, board |-> <<>>]
    /\ activeList = NoActive

InitEvalIn(P, O, N, S) ==
    /\ pos \in P
    /\ optimism \in [Colors -> O]
    /\ network \in {[n \in NetSizes |-> pr[n + 1]] : pr \in N}
    /\ MaterialisticEvaluationStrategy \in {10 * o : o \in S}
    /\ PositionalEvaluationStrategy \in {10 * o : o \in S}
    /\ last = NoCall
    /\ prev = NoPrev

\* the evaluation part of the state in the specifications that leave it alone
EvalAtRest ==
    InitEvalIn({MakePosition(<<StartArmy, StartArmy>>, WHITE, 0)}, {0},
               {<<ZeroNet, ZeroNet>>}, {0})

InitEval ==
    /\ FeatAtRest
    /\ InitLoad
    /\ InitConc
    /\ IndexAtRest
    /\ VerifyAtRest
    /\ BytesAtRest
    /\ LebAtRest
    /\ ReluAtRest
    /\ TraceAtRest
    /\ ArithAtRest
    /\ HintAtRest
    /\ RoundAtRest
    /\ ActiveAtRest
    /\ InitEvalIn(Positions, OptimismValues, NetworkPairs, StrategyOptionValues)

NextEval == EvaluateCall

SpecEval == InitEval /\ [][NextEval]_vars

InitCalls ==
    /\ FeatAtRest
    /\ InitLoad
    /\ InitConc
    /\ IndexAtRest
    /\ VerifyAtRest
    /\ BytesAtRest
    /\ LebAtRest
    /\ ReluAtRest
    /\ TraceAtRest
    /\ ArithAtRest
    /\ HintAtRest
    /\ RoundAtRest
    /\ ActiveAtRest
    /\ InitEvalIn(CallPositions, CallOptimismValues, CallNetworkPairs,
                  CallStrategyOptionValues)

NextCalls ==
    \/ EvaluateCall
    \/ RememberCall
    \/ ChangePosition
    \/ SetOptimism
    \/ OnMaterialisticEvaluationStrategy
    \/ OnPositionalEvaluationStrategy
    \/ ReplaceNetwork

SpecCalls == InitCalls /\ [][NextCalls]_vars

InitFeat ==
    /\ InitFeatIn(Roots)
    /\ EvalAtRest
    /\ InitLoad
    /\ InitConc
    /\ IndexAtRest
    /\ VerifyAtRest
    /\ BytesAtRest
    /\ LebAtRest
    /\ ReluAtRest
    /\ TraceAtRest
    /\ ArithAtRest
    /\ HintAtRest
    /\ RoundAtRest
    /\ ActiveAtRest

NextFeat ==
    \/ DoMove
    \/ DoNullMove
    \/ UndoMove
    \/ UndoNullMove
    \/ Transform
    \/ HintCommonAccess

SpecFeat == InitFeat /\ [][NextFeat]_vars

InitLoadSpec ==
    /\ InitLoad
    /\ EvalAtRest
    /\ FeatAtRest
    /\ InitConc
    /\ IndexAtRest
    /\ VerifyAtRest
    /\ BytesAtRest
    /\ LebAtRest
    /\ ReluAtRest
    /\ TraceAtRest
    /\ ArithAtRest
    /\ HintAtRest
    /\ RoundAtRest
    /\ ActiveAtRest

NextLoad ==
    \/ LoadEval
    \/ SaveEval

SpecLoad == InitLoadSpec /\ [][NextLoad]_vars

InitConcSpec ==
    /\ InitConc
    /\ EvalAtRest
    /\ FeatAtRest
    /\ InitLoad
    /\ IndexAtRest
    /\ VerifyAtRest
    /\ BytesAtRest
    /\ LebAtRest
    /\ ReluAtRest
    /\ TraceAtRest
    /\ ArithAtRest
    /\ HintAtRest
    /\ RoundAtRest
    /\ ActiveAtRest

NextConc ==
    \/ Go
    \/ MainSearchBegin
    \/ HelperSearchBegin
    \/ EvaluateBegin
    \/ EvaluateEnd
    \/ HelperSearchEnd
    \/ MainSearchEnd
    \/ SetOptionEvalFile
    \/ InitSkip
    \/ LoadEvalBegin
    \/ LoadEvalEnd
    \/ Verify

SpecConc == InitConcSpec /\ [][NextConc]_vars

InitIndexSpec ==
    /\ EvalAtRest
    /\ FeatAtRest
    /\ InitLoad
    /\ InitConc
    /\ VerifyAtRest
    /\ BytesAtRest
    /\ LebAtRest
    /\ ReluAtRest
    /\ TraceAtRest
    /\ ArithAtRest
    /\ HintAtRest
    /\ RoundAtRest
    /\ ActiveAtRest
    /\ InitIndex

NextIndex ==
    \/ FeaturesInit
    \/ MakeIndexNotCached
    \/ MakeIndex

SpecIndex == InitIndexSpec /\ [][NextIndex]_vars

InitBytesSpec ==
    /\ InitBytes
    /\ EvalAtRest
    /\ FeatAtRest
    /\ InitLoad
    /\ InitConc
    /\ IndexAtRest
    /\ VerifyAtRest
    /\ LebAtRest
    /\ ReluAtRest
    /\ TraceAtRest
    /\ ArithAtRest
    /\ HintAtRest
    /\ RoundAtRest
    /\ ActiveAtRest

NextBytes ==
    \/ WriteLittleEndian
    \/ WriteLittleEndianCount
    \/ ReadLittleEndian
    \/ ReadLittleEndianCount

SpecBytes == InitBytesSpec /\ [][NextBytes]_vars

InitLebSpec ==
    /\ InitLeb
    /\ EvalAtRest
    /\ FeatAtRest
    /\ InitLoad
    /\ InitConc
    /\ IndexAtRest
    /\ VerifyAtRest
    /\ BytesAtRest
    /\ ReluAtRest
    /\ TraceAtRest
    /\ ArithAtRest
    /\ HintAtRest
    /\ RoundAtRest
    /\ ActiveAtRest

NextLeb ==
    \/ ReadLeb128
    \/ ReadParametersLeb

SpecLeb == InitLebSpec /\ [][NextLeb]_vars

InitReluSpec ==
    /\ InitRelu
    /\ EvalAtRest
    /\ FeatAtRest
    /\ InitLoad
    /\ InitConc
    /\ IndexAtRest
    /\ VerifyAtRest
    /\ BytesAtRest
    /\ LebAtRest
    /\ TraceAtRest
    /\ ArithAtRest
    /\ HintAtRest
    /\ RoundAtRest
    /\ ActiveAtRest

NextRelu == Propagate

SpecRelu == InitReluSpec /\ [][NextRelu]_vars

InitTraceSpec ==
    /\ InitTrace
    /\ EvalAtRest
    /\ FeatAtRest
    /\ InitLoad
    /\ InitConc
    /\ IndexAtRest
    /\ VerifyAtRest
    /\ BytesAtRest
    /\ LebAtRest
    /\ ReluAtRest
    /\ ArithAtRest
    /\ HintAtRest
    /\ RoundAtRest
    /\ ActiveAtRest

NextTrace ==
    \/ EvalTraceInCheck
    \/ EvalTraceBegin
    \/ TraceSkipSquare
    \/ TraceRemovePiece
    \/ TracePutBack
    \/ EvalTraceEnd

SpecTrace == InitTraceSpec /\ [][NextTrace]_vars

InitArithSpec ==
    /\ InitArith
    /\ EvalAtRest
    /\ FeatAtRest
    /\ InitLoad
    /\ InitConc
    /\ IndexAtRest
    /\ VerifyAtRest
    /\ BytesAtRest
    /\ LebAtRest
    /\ ReluAtRest
    /\ TraceAtRest
    /\ HintAtRest
    /\ RoundAtRest
    /\ ActiveAtRest

NextArith ==
    \/ BlendStep
    \/ DampStep

SpecArith == InitArithSpec /\ [][NextArith]_vars

InitSqrSpec ==
    /\ InitSqr
    /\ EvalAtRest
    /\ FeatAtRest
    /\ InitLoad
    /\ InitConc
    /\ IndexAtRest
    /\ VerifyAtRest
    /\ BytesAtRest
    /\ LebAtRest
    /\ TraceAtRest
    /\ ArithAtRest
    /\ HintAtRest
    /\ RoundAtRest
    /\ ActiveAtRest

NextSqr == SqrPropagate

SpecSqr == InitSqrSpec /\ [][NextSqr]_vars

InitHint ==
    /\ InitEvalIn(HintPositions, CallOptimismValues, CallNetworkPairs, {0})
    /\ hinted = {}
    /\ RoundAtRest
    /\ ActiveAtRest

InitHintSpec ==
    /\ FeatAtRest
    /\ InitLoad
    /\ InitConc
    /\ IndexAtRest
    /\ VerifyAtRest
    /\ BytesAtRest
    /\ LebAtRest
    /\ ReluAtRest
    /\ TraceAtRest
    /\ ArithAtRest
    /\ RoundAtRest
    /\ ActiveAtRest
    /\ InitHint

NextHint ==
    \/ HintCommonParentPosition
    \/ EvaluateCall

SpecHint == InitHintSpec /\ [][NextHint]_vars

InitRoundSpec ==
    /\ InitRound
    /\ EvalAtRest
    /\ FeatAtRest
    /\ InitLoad
    /\ InitConc
    /\ IndexAtRest
    /\ VerifyAtRest
    /\ BytesAtRest
    /\ LebAtRest
    /\ ReluAtRest
    /\ TraceAtRest
    /\ ArithAtRest
    /\ HintAtRest
    /\ ActiveAtRest

NextRound ==
    \/ WriteLeb128
    \/ ReadWrittenLeb128

SpecRound == InitRoundSpec /\ [][NextRound]_vars

InitActiveSpec ==
    /\ InitActive
    /\ EvalAtRest
    /\ FeatAtRest
    /\ InitLoad
    /\ InitConc
    /\ IndexAtRest
    /\ VerifyAtRest
    /\ BytesAtRest
    /\ LebAtRest
    /\ ReluAtRest
    /\ TraceAtRest
    /\ ArithAtRest
    /\ HintAtRest
    /\ RoundAtRest

NextActive == AppendActiveIndices

SpecActive == InitActiveSpec /\ [][NextActive]_vars

---------------------------------------------------------------------------
(* Claims about Eval::evaluate                                              *)

\* the material-only estimate of the side to move, from the piece counts
MaterialEstimate ==
    LET us == pos.sideToMove
        them == 1 - us
    IN  208 * (pos.pawns[us] - pos.pawns[them]) + (pos.npm[us] - pos.npm[them])

\* C1: every value Eval::evaluate returns lies strictly between
\* VALUE_TB_LOSS_IN_MAX_PLY and VALUE_TB_WIN_IN_MAX_PLY, on the lazy path and
\* on the network path, whatever the optimism, rule50 and network output.
C1_InsideTablebaseBounds ==
    last.done =>
        /\ VALUE_TB_LOSS_IN_MAX_PLY < last.v
        /\ last.v < VALUE_TB_WIN_IN_MAX_PLY

\* a call on the network path, its arithmetic defined, whose blended and
\* damped value lay below the lower bound
C1_Witness ==
    /\ last.done
    /\ last.nets # {}
    /\ ~last.ub
    /\ last.unclamped < VALUE_TB_LOSS_IN_MAX_PLY
    /\ last.v = VALUE_TB_LOSS_IN_MAX_PLY + 1

\* C7 (as claimed): on the lazy path the value returned equals the
\* material-only estimate exactly, for every rule50 counter.
C7_LazyReturnsMaterialEstimate ==
    (last.done /\ Abs(MaterialEstimate) > 2700) => last.v = MaterialEstimate

\* C7 (amended): on the lazy path the value returned is the material-only
\* estimate damped by the rule50 counter, estimate * (200 - rule50) / 214
\* truncated toward zero, kept inside the tablebase bounds.
C7_LazyReturnsDampedMaterialEstimate ==
    (last.done /\ Abs(MaterialEstimate) > 2700) =>
        LET d == TruncDiv(MaterialEstimate * (200 - pos.rule50), 214)
        IN  last.v = IF d < -31507 THEN -31507 ELSE IF d > 31507 THEN 31507 ELSE d

\* a lazy call whose value differs from the material estimate
C7_Witness ==
    /\ last.done
    /\ MaterialEstimate = 2701
    /\ pos.rule50 = 0
    /\ last.nets = {}
    /\ last.v = 2524

\* C8: no network runs when |simple_eval| > 2700, exactly the Small network
\* when 1050 < |simple_eval| <= 2700, exactly the Big network when
\* |simple_eval| <= 1050.
C8_NetworkSelection ==
    last.done =>
        LET m == Abs(MaterialEstimate)
        IN  /\ (m > 2700) => (last.nets = {} /\ last.lazy)
            /\ (1050 < m /\ m <= 2700) => (last.nets = {Small} /\ ~last.lazy)
            /\ (m <= 1050) => (last.nets = {Big} /\ ~last.lazy)

\* a material estimate of exactly 2700 takes the network path (Small network)
C8_Witness ==
    /\ last.done
    /\ Abs(MaterialEstimate) = 2700
    /\ last.nets = {Small}

---------------------------------------------------------------------------
(* Claims about the feature indices and the accumulator                     *)

\* the accumulator of perspective P of pos.state(), when computed, is the sum
\* a from-scratch refresh of the board gives
AccumulatorsMatchBoard ==
    \A P \in Colors :
        st[Len(st)].computed[P] =>
            st[Len(st)].accumulation[P] = RefreshedAccumulation(P, board)

\* a move or null move whose first dirty piece is not the king of P changes
\* the active indices of P by exactly the removed and added indices
ChangedIndicesMatchBoards ==
    (Len(st') = Len(st) + 1) =>
        \A P \in Colors :
            LET dp    == st'[Len(st')].dirtyPiece
                lists == append_changed_indices(P, square_KING(board', P), dp, <<>>, <<>>)
            IN  (dp.piece[1] # make_piece(P, KING)) =>
                    AccApply(AccApply(RefreshedAccumulation(P, board), lists.removed, -1),
                             lists.added, 1)
                        = RefreshedAccumulation(P, board')

\* C2: for either perspective and any board change whose first dirty piece is
\* not that perspective's king, the active indices of the new board are those
\* of the old board less the removed plus the added indices (SQ_NONE entries
\* contributing nothing); and along every sequence of moves applied and
\* undone, an accumulator that is computed equals a refresh of the board.
C2_IncrementalEqualsRefresh ==
    /\ []AccumulatorsMatchBoard
    /\ [][ChangedIndicesMatchBoards]_vars

\* both perspectives of the state after a capturing promotion (three dirty
\* pieces, two with a SQ_NONE square) were patched over two states from an
\* accumulator computed two plies earlier, at the root
C2_Witness ==
    /\ Len(st) = 3
    /\ updated = [c \in Colors |-> "incremental"]
    /\ st[3].dirtyPiece.dirty_num = 3
    /\ st[3].dirtyPiece.to[1] = SQ_NONE
    /\ st[3].dirtyPiece.from[3] = SQ_NONE
    /\ \A P \in Colors :
          /\ st[2].computed[P] /\ st[3].computed[P]
          /\ st[3].accumulation[P] = RefreshedAccumulation(P, board)

\* C6: requires_refresh(st, perspective) holds exactly when the first dirty
\* piece is the king of that perspective: a king move (castling included)
\* requires a refresh for the mover's perspective and none for the other,
\* and no other move or null move requires one.
C6_RequiresRefreshIffOwnKing ==
    \A k \in 2 .. Len(st) : \A P \in Colors :
        /\ requires_refresh(st[k], P) <=>
              ( /\ type_of(st[k].dirtyPiece.piece[1]) = KING
                /\ color_of(st[k].dirtyPiece.piece[1]) = P )
        /\ requires_refresh(st[k], P) <=>
              ( /\ type_of(st[k].moved) = KING
                /\ color_of(st[k].moved) = P )

\* a white king move and a black king move are on the chain: each requires a
\* refresh for its own perspective only
C6_Witness ==
    \E j, k \in 2 .. Len(st) :
        /\ st[j].moved = make_piece(WHITE, KING)
        /\ st[k].moved = make_piece(BLACK, KING)
        /\ requires_refresh(st[j], WHITE) /\ ~requires_refresh(st[j], BLACK)
        /\ requires_refresh(st[k], BLACK) /\ ~requires_refresh(st[k], WHITE)

---------------------------------------------------------------------------
(* Claims about the parameter store                                         *)

\* the token sequence f is a complete network file for net size small: the
\* version, the hash of that size, a description of the announced length,
\* the feature transformer and LayerStacks layer stacks under their own
\* hashes, and nothing after them
WellFormedFile(f, small) ==
    /\ Len(f) >= 3
    /\ f[1] = Version
    /\ f[2] = HashValue(small)
    /\ LET ftAt == 3 + f[3] + 1
       IN  /\ Len(f) = 3 + f[3] + (1 + FtItems) + LayerStacks * (1 + StackItems)
           /\ f[ftAt] = FeatureTransformerHash(small)
           /\ \A k \in 1 .. LayerStacks :
                 f[ftAt + FtItems + (k - 1) * (1 + StackItems) + 1] = NetworkHash(small)

\* C3 (as claimed): when load_eval returns false for a net size that held a
\* successfully loaded network, the feature transformer, the layer stacks and
\* the description of that size are what they were before the call.
C3_FailedLoadKeepsPreviousNetwork ==
    (lastLoad.done /\ ~lastLoad.ok /\ lastLoad.before.loaded) =>
        /\ featureTransformer[lastLoad.small] = lastLoad.before.ft
        /\ networkLayers[lastLoad.small] = lastLoad.before.layers
        /\ netDescription[lastLoad.small] = lastLoad.before.desc

\* a load of a file with a wrong version failed on a net size that held a
\* loaded network: the transformer and the stacks are zeroed
C3_Witness ==
    /\ lastLoad.done /\ ~lastLoad.ok /\ lastLoad.before.loaded
    /\ lastLoad.stream.data # <<>>
    /\ lastLoad.stream.data[1] # Version
    /\ featureTransformer[lastLoad.small] = Zeros(FtItems)
    /\ lastLoad.before.ft # Zeros(FtItems)
    /\ netDescription[lastLoad.small] = lastLoad.before.desc

\* C4: load_eval returns true exactly when the stream opened, its version
\* field is Version, its hash is HashValue[netSize], the sub-header of the
\* feature transformer and of every layer stack is that component's hash, no
\* read ran past the end and nothing follows the last layer stack.
C4_LoadSucceedsIffWellFormed ==
    lastLoad.done =>
        ( lastLoad.ok <=>
            ( /\ ~lastLoad.stream.fail
              /\ WellFormedFile(lastLoad.stream.data, lastLoad.small) ) )

\* a file complete but for one trailing byte was refused
C4_Witness ==
    /\ lastLoad.done /\ ~lastLoad.ok
    /\ lastLoad.stream.data = NamedFile(lastLoad.small) \o <<0>>
    /\ WellFormedFile(NamedFile(lastLoad.small), lastLoad.small)

---------------------------------------------------------------------------
(* Claims about reloading                                                   *)

\* C9: while load_eval replaces the tables of a net size (at start-up or
\* after a change of the EvalFile option), no search thread is inside
\* Eval::evaluate, and none is searching.
C9_ReplacementOnlyWhileQuiescent ==
    (\E n \in NetSizes : storage[n] = "replacing") =>
        \A t \in SearchThreads : workerPc[t] = "idle" /\ ~searching[t]

\* after a search has run, a change of EvalFile is replacing the Big tables,
\* which were ready, with every thread idle
C9_Witness ==
    /\ uci.pc = "nnue_init" /\ uci.caller = "setoption" /\ uci.loading
    /\ storage[Big] = "replacing"
    /\ storage[Small] = "ready"
    /\ searches > 0
    /\ \A t \in SearchThreads : workerPc[t] = "idle"

---------------------------------------------------------------------------
(* Claims about the feature index                                          *)

flip_rank(s) == Xor(s, 56)
swap_color(pc) == Xor(pc, 8)

RawComputed == indexValue.op = "make_index_not_cached"
CachedComputed == indexValue.op = "make_index" /\ indexValue.filled

\* C14: for every perspective, square, king square and each of the twelve
\* real pieces, make_index_not_cached returns an index in 0 .. Dimensions - 1.
C14_IndexInRange ==
    (RawComputed /\ probe.pc \in RealPieces) =>
        indexValue.value \in 0 .. (Dimensions - 1)

\* the largest index, Dimensions - 1, is computed
C14_Witness ==
    /\ RawComputed
    /\ probe.pc \in RealPieces
    /\ indexValue.value = Dimensions - 1

\* C15 as stated: after Features::init the table entry equals the raw formula
\* for every combination of the four coordinates.
C15_TableEqualsFormulaEverywhere ==
    CachedComputed =>
        indexValue.value = make_index_not_cached(probe.Perspective, probe.s,
                                                 probe.pc, probe.ksq)

\* C15: after Features::init the table entry equals the raw formula for every
\* perspective, square, king square and every piece coordinate from W_PAWN to
\* PIECE_NB - 1; the entries of NO_PIECE are never written and hold 0.
C15_TableEqualsFormulaFromWPawn ==
    CachedComputed =>
        indexValue.value =
            IF probe.pc = NO_PIECE THEN 0
            ELSE make_index_not_cached(probe.Perspective, probe.s, probe.pc, probe.ksq)

\* a cached lookup after Features::init, of a real piece, with a non-zero index
C15_Witness ==
    /\ CachedComputed
    /\ probe.pc \in RealPieces
    /\ indexValue.value = make_index_not_cached(probe.Perspective, probe.s,
                                                probe.pc, probe.ksq)
    /\ indexValue.value > 0
    /\ probe.s # probe.ksq

\* C16: the perspectives mirror each other: the index of (s, pc, ksq) for one
\* perspective is the index, for the other perspective, of the rank-flipped
\* square, the colour-swapped piece and the rank-flipped king square; a piece
\* of the perspective's colour gets the offset a white piece gets for WHITE.
C16_PerspectivesMirror ==
    (RawComputed /\ probe.pc \in RealPieces) =>
        /\ indexValue.value =
              make_index_not_cached(Other(probe.Perspective), flip_rank(probe.s),
                                    swap_color(probe.pc), flip_rank(probe.ksq))
        /\ PieceSquareIndex[probe.Perspective + 1][probe.pc + 1] =
              PieceSquareIndex[WHITE + 1]
                  [(IF probe.Perspective = WHITE THEN probe.pc ELSE swap_color(probe.pc)) + 1]

\* the index of a black piece for BLACK, off the mirror axis
C16_Witness ==
    /\ RawComputed
    /\ probe.Perspective = BLACK
    /\ probe.pc = make_piece(BLACK, QUEEN)
    /\ probe.s = 12 /\ probe.ksq = 62
    /\ indexValue.value = make_index_not_cached(WHITE, 52, make_piece(WHITE, QUEEN), 6)

---------------------------------------------------------------------------
(* Claims about the left-right mirror of the feature index                  *)

\* file f becomes file 7 - f
flip_file(s) == Xor(s, 7)

\* the king square as the orientation transform places it
oriented_king(P, ksq) == Xor(ksq, OrientTBL[P + 1][ksq + 1])

\* C29: for every perspective, king square, square and real piece the index
\* is the index of the left-right reflected square and king square; the
\* orientation transform places the perspective's own king on files e..h,
\* and the king squares of a mirror pair share one of the 32 king buckets.
C29_IndexUnchangedByFileMirror ==
    (RawComputed /\ probe.pc \in RealPieces) =>
        /\ indexValue.value =
              make_index_not_cached(probe.Perspective, flip_file(probe.s), probe.pc,
                                    flip_file(probe.ksq))
        /\ file_of(oriented_king(probe.Perspective, probe.ksq)) \in 4 .. 7
        /\ KingBuckets(probe.Perspective, probe.ksq) =
              KingBuckets(probe.Perspective, flip_file(probe.ksq))
        /\ KingBuckets(probe.Perspective, probe.ksq) \in {v * PS_NB : v \in 0 .. 31}

\* the index of a black knight on b3 for WHITE with the white king on c1:
\* the king is placed on f1, and the index is the one of the knight on g3
\* with the king on f1
C29_Witness ==
    /\ RawComputed
    /\ probe.Perspective = WHITE
    /\ probe.pc = make_piece(BLACK, KNIGHT)
    /\ probe.s = 17 /\ probe.ksq = 2
    /\ oriented_king(WHITE, 2) = 5
    /\ indexValue.value = make_index_not_cached(WHITE, 22, make_piece(BLACK, KNIGHT), 5)
    /\ indexValue.value = 22 + 192 + 30 * PS_NB

---------------------------------------------------------------------------
(* Claims about the indices of the pieces of one board                      *)

\* the indices of every square with every non-king piece
NonKingIndices(P, ksq) ==
    {make_index(P, s, pc, ksq) : s \in Squares, pc \in NonKingPieces}

\* the indices of every square with a king
KingIndices(P, ksq, c) ==
    {make_index(P, s, make_piece(c, KING), ksq) : s \in Squares}

ListedIndices == {activeList.active[i] : i \in 1 .. Len(activeList.active)}

\* C30: for the perspective and its king square, the index is injective
\* over the (square, non-king piece) pairs, no king index is a non-king
\* index, the two kings have the same index on the same square and
\* different indices on different squares; and append_active_indices yields
\* one index per piece, all different, at most MaxActiveDimensions.
C30_ActiveIndicesDistinct ==
    activeList.done =>
        /\ Cardinality(NonKingIndices(activePos.Perspective,
                                      square_KING(activePos.board, activePos.Perspective)))
              = SQUARE_NB * Cardinality(NonKingPieces)
        /\ \A c \in Colors :
              /\ KingIndices(activePos.Perspective,
                             square_KING(activePos.board, activePos.Perspective), c)
                    \cap NonKingIndices(activePos.Perspective,
                                        square_KING(activePos.board, activePos.Perspective))
                    = {}
              /\ Cardinality(KingIndices(activePos.Perspective,
                                         square_KING(activePos.board, activePos.Perspective), c))
                    = SQUARE_NB
        /\ \A s \in Squares :
              make_index(activePos.Perspective, s, make_piece(WHITE, KING),
                         square_KING(activePos.board, activePos.Perspective))
                = make_index(activePos.Perspective, s, make_piece(BLACK, KING),
                             square_KING(activePos.board, activePos.Perspective))
        /\ Len(activeList.active) = Cardinality(pieces(activePos.board))
        /\ Cardinality(ListedIndices) = Len(activeList.active)
        /\ Len(activeList.active) <= MaxActiveDimensions

\* a board of 32 pieces, the king of the perspective on a file that is
\* flipped, gave 32 different indices
C30_Witness ==
    /\ activeList.done
    /\ activePos.Perspective = BLACK
    /\ square_KING(activePos.board, BLACK) = 9
    /\ Cardinality(pieces(activePos.board)) = MaxActiveDimensions
    /\ Len(activeList.active) = MaxActiveDimensions
    /\ Cardinality(ListedIndices) = MaxActiveDimensions

---------------------------------------------------------------------------
(* Claims about the file names and NNUE::verify                            *)

\* C12 as stated: NNUE::verify terminates the process exactly when, for some
\* net size, the requested name is not the name recorded by the last
\* successful load (there being none before a load has succeeded); and
\* NNUE::init does not terminate the process.
C12_VerifyExitsIffNotLoadedUnderRequestedName ==
    /\ lastVerify.done =>
          (lastVerify.exited <=>
              \E n \in NetSizes :
                  \/ ~lastVerify.loaded[n]
                  \/ lastVerify.request[n] # lastVerify.recorded[n])
    /\ (uci.pc = "nnue_init") => ~terminated

\* NNUE::verify let the engine go on though no load of the Big net succeeded
C12_Witness ==
    /\ lastVerify.done
    /\ ~lastVerify.exited
    /\ ~lastVerify.loaded[Big]
    /\ lastVerify.storage[Big] # "ready"

\* C13 as stated: while the EvalFile option has its default value, the Big
\* net is requested under EvalFileDefaultNameBig and the Small net under
\* EvalFileDefaultNameSmall.
C13_DefaultNames ==
    (uci.pc = "nnue_init" /\ uci.caller = "main") =>
        /\ eval_file(Big) = EvalFileDefaultName(Big)
        /\ eval_file(Small) = EvalFileDefaultName(Small)

\* at start-up load_eval reads a Big network from the file of the Small name
C13_Witness ==
    /\ uci.pc = "nnue_init" /\ uci.caller = "main"
    /\ uci.netSize = Big /\ uci.loading
    /\ eval_file(Big) = EvalFileDefaultName(Small)

---------------------------------------------------------------------------
(* Claims about integers on a byte stream                                  *)

\* the bytes of the values, least significant byte of each first
RECURSIVE LeastSignificantFirst(_, _)
LeastSignificantFirst(vals, size) ==
    IF vals = <<>> THEN <<>>
    ELSE [i \in 1 .. size |-> ByteOf(Head(vals), i - 1)]
            \o LeastSignificantFirst(Tail(vals), size)

\* C17: on either host, for every size and signedness, write_little_endian
\* emits each value's bytes least significant first, and read_little_endian
\* rebuilds from them the values written.
C17_LittleEndianOnEveryHost ==
    /\ (written # <<>>) => written = LeastSignificantFirst(values, intType.size)
    /\ (readBack # <<>>) => readBack = values

\* on a big-endian host, a negative int32 and a value with four different
\* bytes went out and came back
C17_Witness ==
    /\ host = "big"
    /\ intType = [size |-> 4, signed |-> TRUE]
    /\ values = <<-16909060, 16909060>>
    /\ written = <<252, 252, 253, 254, 4, 3, 2, 1>>
    /\ readBack = values

---------------------------------------------------------------------------
(* Claims about the compressed arrays                                      *)

StartsWithMagic(s) ==
    /\ Len(s.data) >= Leb128MagicStringSize
    /\ SubSeq(s.data, 1, Leb128MagicStringSize) = Leb128MagicString

\* C11 as stated: when the bytes at the start of the array are not exactly
\* the magic string, the reader returns false.
C11_WrongMagicReturnsFalse ==
    (lebResult.op = "read_parameters" /\ ~StartsWithMagic(lebStream)) =>
        (lebResult.outcome = "returned" /\ ~lebResult.ok)

\* a build with NDEBUG decodes an array behind a wrong magic string and the
\* reader returns true
C11_Witness ==
    /\ lebResult.op = "read_parameters"
    /\ build
    /\ ~StartsWithMagic(lebStream)
    /\ lebResult.outcome = "returned" /\ lebResult.ok
    /\ lebResult.out = <<300, -300>>

\* the decoder returns the encoded values from a well-formed array, in
\* either build
LebDecodesGoodFiles ==
    (lebResult.op = "read_leb_128" /\ lebStream.data \in GoodLebFiles) =>
        /\ lebResult.outcome = "returned"
        /\ ~lebResult.fail
        /\ \E a \in LebArrays :
              lebStream.data = LebFile(Leb128MagicString, a) /\ lebResult.out = a.values

---------------------------------------------------------------------------
(* Claims about write_leb_128 followed by read_leb_128                      *)

\* the encoded bytes of the written stream, after magic string and count
EncodedBytes == Len(lebWritten.stream) - Leb128MagicStringSize - Uint32.size

\* C25 as stated: for every array of int16 or int32, the smallest and the
\* largest value included, read_leb_128 on the output of write_leb_128
\* returns the array; the byte count written is the number of encoded bytes
\* after it, and the reader consumes exactly those (bytes_left ends at 0).
C25_ReadReturnsWhatWasWritten ==
    /\ lebWritten.done => lebWritten.byte_count = EncodedBytes
    /\ lebBack.done =>
          /\ lebBack.outcome = "returned"
          /\ lebBack.out = lebValues
          /\ lebBack.bytes_left = 0
          /\ lebBack.pos = Len(lebWritten.stream)
          /\ ~lebBack.fail

\* the smallest int32 was written in five bytes, the last one 0x78, and
\* read back with 0x78 << 28 (not an int value) giving something other than
\* its low 32 bits: the count and the consumed bytes agree, the value does
\* not
C25_Witness ==
    /\ lebBack.done
    /\ lebType = 32
    /\ lebValues[1] = INT32_MIN
    /\ SubSeq(lebWritten.stream, Leb128MagicStringSize + Uint32.size + 1,
              Leb128MagicStringSize + Uint32.size + 5) = <<128, 128, 128, 128, 120>>
    /\ lebBack.bytes_left = 0
    /\ lebBack.out[1] # INT32_MIN

\* the 32-bit values whose last byte is shifted out of the range of int
ShiftedOutOfInt(v) == v < -134217728

\* where every shift is defined, and wherever an overflowing shift keeps
\* its low 32 bits, the array comes back and the counts agree
RoundTripWhereShiftDefined ==
    /\ lebWritten.done => lebWritten.byte_count = EncodedBytes
    /\ lebBack.done =>
          /\ lebBack.outcome = "returned"
          /\ lebBack.bytes_left = 0
          /\ lebBack.pos = Len(lebWritten.stream)
          /\ (lebType = 16
              \/ lebBack.ub = "wraps"
              \/ \A i \in 1 .. Len(lebValues) : ~ShiftedOutOfInt(lebValues[i]))
                => lebBack.out = lebValues

---------------------------------------------------------------------------
(* Claims about the activation layers                                      *)

ClampedShift(x) ==
    IF x \div 64 < 0 THEN 0 ELSE IF x \div 64 > 127 THEN 127 ELSE x \div 64

\* C19: in every build (scalar, SSE2, SSE4.1, AVX2, NEON) propagate writes
\* clamp(input >> 6, 0, 127) to each of the InputDimensions elements, so every
\* build agrees with the scalar loop and every output is in 0..127.
C19_EveryPathIsClampedShift ==
    reluOutput # <<>> =>
        /\ Len(reluOutput) = Len(reluInput)
        /\ \A k \in 1 .. Len(reluInput) :
              /\ reluOutput[k] = ClampedShift(reluInput[k])
              /\ reluOutput[k] \in 0 .. 127
        /\ reluOutput = ClippedReLU_propagate("scalar", reluInput)

\* the 256-bit loop ran over an input that saturates the 16-bit pack in the
\* upper lane
C19_Witness ==
    /\ buildPath = "avx2"
    /\ Len(reluInput) = 32
    /\ reluInput[21] = 2097152
    /\ reluOutput # <<>>
    /\ reluOutput[21] = 127
    /\ reluOutput[5] = 5

\* min(127, (x * x) >> 19): the square reaches 128 << 19 at |x| = 8192
SquaredShift(x) ==
    IF x <= -8192 \/ x >= 8192 THEN 127
    ELSE IF (x * x) \div 524288 > 127 THEN 127 ELSE (x * x) \div 524288

\* C26: in both builds (scalar loop, SSE2) SqrClippedReLU::propagate writes
\* min(127, (input * input) >> 19) to every element; the output is in
\* 0..127 and depends only on the magnitude of the input, and the 64-bit
\* square of an int32 is below 2^63.
C26_EveryPathIsSquaredShift ==
    (reluOutput # <<>> /\ buildPath \in SqrBuildPaths /\ Len(reluInput) \in SqrInstantiatedDims) =>
        /\ Len(reluOutput) = Len(reluInput)
        /\ \A k \in 1 .. Len(reluInput) :
              /\ reluOutput[k] = SquaredShift(reluInput[k])
              /\ reluOutput[k] \in 0 .. 127
              /\ fits_long_long(square_ll(reluInput[k]))
              /\ reluInput[k] # INT32_MIN =>
                    sqr_scalar_element(-reluInput[k]) = reluOutput[k]
        /\ reluOutput = SqrClippedReLU_propagate("scalar", reluInput)

\* the SSE2 loop ran over INT32_MIN, which the pack saturates to -32768
C26_Witness ==
    /\ buildPath = "sse2"
    /\ Len(reluInput) = 16
    /\ reluInput[7] = INT32_MIN
    /\ reluInput[2] = 1300
    /\ reluOutput # <<>>
    /\ reluOutput[7] = 127
    /\ reluOutput[2] = 3

---------------------------------------------------------------------------
(* Claims about trace and the material bucket                              *)

BoardAsAtEntry ==
    /\ tracePos.board = traceEntry.pos.board
    /\ tracePos.pieceCount = traceEntry.pos.pieceCount

\* while a piece is off the board, it is the only difference and not a king
OnlyOnePieceOff ==
    /\ type_of(traceAt.pc) # KING
    /\ traceAt.pc = traceEntry.pos.board[trace_square(traceAt.k)]
    /\ \A s \in Squares :
          tracePos.board[s] = IF s = trace_square(traceAt.k) THEN NO_PIECE
                              ELSE traceEntry.pos.board[s]

\* C18 as stated: when trace returns, the board, the piece counts and the
\* thread's optimism and best value are what they were at entry.
C18_TraceLeavesBoardAndThread ==
    traceAt.phase = "done" =>
        /\ BoardAsAtEntry
        /\ traceThread.optimism = traceEntry.thread.optimism
        /\ traceThread.bestValue = traceEntry.thread.bestValue

\* C18 amended: the board and the piece counts at return, and before each
\* square is examined, are those at entry, and a removed piece is never a
\* king; the thread's best value, root simple eval and optimism are zero at
\* return unless the position is in check, when they are untouched.
C18_TraceRestoresBoardResetsThread ==
    /\ traceAt.phase \in {"loop", "done"} => BoardAsAtEntry
    /\ traceAt.phase = "removed" => OnlyOnePieceOff
    /\ (traceAt.phase = "done" /\ tracePos.checkers) => traceThread = traceEntry.thread
    /\ (traceAt.phase = "done" /\ ~tracePos.checkers) =>
          /\ traceThread.bestValue = VALUE_ZERO
          /\ traceThread.rootSimpleEval = VALUE_ZERO
          /\ \A c \in Colors : traceThread.optimism[c] = VALUE_ZERO

\* trace returned on the initial position with the thread's values reset
C18_Witness ==
    /\ traceAt.phase = "done"
    /\ tracePos.board = StartBoard
    /\ tracePos.pieceCount[make_piece(WHITE, ALL_PIECES)] = 16
    /\ traceEntry.thread.bestValue = 35
    /\ traceEntry.thread.optimism[WHITE] = 12
    /\ traceThread.bestValue = VALUE_ZERO
    /\ traceThread.optimism[WHITE] = VALUE_ZERO

PiecesOnBoard(b) == Cardinality({s \in Squares : b[s] # NO_PIECE})

\* C20: on every board of 2 to 32 pieces, the boards of trace with one
\* piece removed included, the bucket is (piece count - 1) / 4, lies in
\* 0 .. LayerStacks - 1 with LayerStacks = 8, and the bucket with a piece
\* removed is not above the bucket of the full board.
C20_BucketInRangeAndMonotone ==
    traceAt.phase # "idle" =>
        /\ PiecesOnBoard(tracePos.board) \in 2 .. 32
        /\ LayerStacks = 8
        /\ traceAt.base = (PiecesOnBoard(traceEntry.pos.board) - 1) \div 4
        /\ traceAt.phase = "removed" =>
              /\ PiecesOnBoard(tracePos.board) = PiecesOnBoard(traceEntry.pos.board) - 1
              /\ traceAt.bucket = (PiecesOnBoard(tracePos.board) - 1) \div 4
        /\ traceAt.base \in 0 .. (LayerStacks - 1)
        /\ traceAt.bucket \in 0 .. (LayerStacks - 1)
        /\ traceAt.bucket <= traceAt.base

\* a removal that takes the board from 29 to 28 pieces and the bucket from
\* 7 to 6
C20_Witness ==
    /\ traceAt.phase = "removed"
    /\ PiecesOnBoard(traceEntry.pos.board) = 29
    /\ traceAt.base = 7
    /\ traceAt.bucket = 6

---------------------------------------------------------------------------
(* Claims about the blend and the damping                                  *)

SameSignOrZero(x, y) == (x > 0 => y >= 0) /\ (x < 0 => y <= 0) /\ (x = 0 => y = 0)

Magnitude(x) == IF x < 0 THEN -x ELSE x

\* C21 as stated: for every complexity >= 0, material estimate and raw
\* network value, the adjusted optimism has the sign of the optimism and at
\* least its magnitude, and the adjusted network value has the sign of the
\* raw network value and at most its magnitude.
C21_BlendKeepsSignsAndShrinksNnue ==
    blendOut.done =>
        /\ ~blendOut.optimism.ub
        /\ SameSignOrZero(blendIn.optimism, blendOut.optimism.n)
        /\ Magnitude(blendOut.optimism.n) >= Magnitude(blendIn.optimism)
        /\ ~blendOut.nnue.ub
        /\ SameSignOrZero(blendIn.nnue, blendOut.nnue.n)
        /\ Magnitude(blendOut.nnue.n) <= Magnitude(blendIn.nnue)

\* a signal above 65536 turns a network value of 1000 into a negative value
\* of larger magnitude
C21_Witness ==
    /\ blendOut.done
    /\ blendIn.nnue = 1000
    /\ blendIn.complexity = 70000
    /\ blendIn.simpleEval = 0
    /\ ~blendOut.nnue.ub
    /\ blendOut.signal.n = 71000
    /\ blendOut.nnue.n = -1166

\* the half of C21 about the optimism, and the network value while the
\* signal is at most 32768
BlendWithinSmallSignal ==
    (blendOut.done /\ ~blendOut.signal.ub) =>
        /\ ~blendOut.optimism.ub =>
              /\ SameSignOrZero(blendIn.optimism, blendOut.optimism.n)
              /\ Magnitude(blendOut.optimism.n) >= Magnitude(blendIn.optimism)
        /\ blendOut.signal.n <= 32768 =>
              /\ ~blendOut.nnue.ub
              /\ SameSignOrZero(blendIn.nnue, blendOut.nnue.n) \/ blendOut.nnue.n = 0
              /\ Magnitude(blendOut.nnue.n) <= Magnitude(blendIn.nnue)

\* C22: for every value v before the damping and every rule50 counter in
\* 0..100, the damped value is v * (200 - rule50) / 214 truncated toward
\* zero: it is zero or has the sign of v, its magnitude is at most |v|, and
\* the magnitude does not grow when the counter grows.
C22_DampShrinksMonotonically ==
    dampOut.done =>
        /\ ~dampOut.v.ub
        /\ dampOut.v.n = (IF dampIn.v < 0 THEN -1 ELSE 1)
                           * ((Magnitude(dampIn.v) * (200 - dampIn.rule50)) \div 214)
        /\ dampOut.v.n = 0 \/ SameSignOrZero(dampIn.v, dampOut.v.n)
        /\ Magnitude(dampOut.v.n) <= Magnitude(dampIn.v)
        /\ dampIn.rule50 > 0 =>
              Magnitude(dampOut.v.n) <= Magnitude(Damp(Val(dampIn.v), dampIn.rule50 - 1).n)

\* a negative value damped at the largest counter
C22_Witness ==
    /\ dampOut.done
    /\ dampIn.v = -31507
    /\ dampIn.rule50 = 100
    /\ dampOut.v.n = -14722

---------------------------------------------------------------------------
(* Claims about the choice of the net size                                  *)

\* C27 as stated: hint_common_parent_position prepares the accumulator of
\* the net size that Eval::evaluate runs on a position with the same
\* material estimate.
C27_HintPreparesTheNetEvaluated ==
    (hinted # {} /\ last.done /\ ~last.lazy) => hinted = last.nets

\* at a material estimate of 1051 the hint prepared the Big net and
\* evaluate ran the Small net
C27_Witness ==
    /\ hinted = {Big}
    /\ last.done
    /\ Abs(MaterialEstimate) = 1051
    /\ last.nets = {Small}

\* the two choices differ exactly for 1050 < |simple_eval| <= 1500, and above
\* 2700 evaluate runs no net
HintDisagreesOnlyBetweenThresholds ==
    (hinted # {} /\ last.done) =>
        /\ (Abs(MaterialEstimate) > 2700) => (hinted = {Small} /\ last.nets = {})
        /\ (Abs(MaterialEstimate) <= 2700) =>
              ((hinted # last.nets) <=>
                 (1050 < Abs(MaterialEstimate) /\ Abs(MaterialEstimate) <= 1500))

---------------------------------------------------------------------------
(* Claims about save_eval after a failed load                               *)

\* C28 as stated: save_eval returns false and writes nothing unless the
\* load of that net size succeeded; after a load_eval that returned false
\* it does not write out what that load left behind.
C28_SaveRefusedWithoutGoodLoad ==
    (saved.done /\ ~saved.goodLoad) => (~saved.ok /\ saved.data = <<>>)

\* save_eval returned true right after a load_eval of the same net size
\* returned false, and wrote the storage that load left behind
C28_Witness ==
    /\ saved.done
    /\ saved.ok
    /\ ~saved.goodLoad
    /\ lastLoad.done
    /\ ~lastLoad.ok
    /\ lastLoad.small = saved.small
    /\ saved.data = write_parameters(saved.small, StoreOf(saved.small))
    /\ Len(saved.data) > 0

---------------------------------------------------------------------------
(* Claims about NNUE::init                                                  *)

FileNames == {EvalFileDefaultName(Small), EvalFileDefaultName(Big)}

\* C23 as stated: between two calls of NNUE::init, whenever
\* currentEvalFileName of a net size is a file name, the tables of that net
\* size hold the parameters a successful load of that file produced.
C23_RecordedNameHasItsParameters ==
    InLoop =>
        \A n \in NetSizes :
            currentEvalFileName[n] \in FileNames =>
                /\ storage[n] = "ready"
                /\ loadedFrom[n] = currentEvalFileName[n]

\* a file was loaded, the load of another file failed in every location,
\* and the earlier file was requested again: its name is still recorded,
\* NNUE::init loads nothing, and the tables are the cleared ones
C23_Witness ==
    /\ InLoop
    /\ initLog.attempts = <<>>
    /\ initLog.atEntry[Big] = eval_file(Big)
    /\ currentEvalFileName[Big] = eval_file(Big)
    /\ eval_file(Big) \in FileNames
    /\ everLoaded[Big]
    /\ storage[Big] = "failed"
    /\ loadedFrom[Big] = Cleared_tables

Attempts == initLog.attempts

AttemptsOf(n) == {i \in 1 .. Len(Attempts) : Attempts[i].netSize = n}

\* the locations are tried in the order of dirs, Big before Small
InOrderOfDirs ==
    \A i, j \in 1 .. Len(Attempts) :
        i < j => \/ Attempts[i].netSize < Attempts[j].netSize
                 \/ /\ Attempts[i].netSize = Attempts[j].netSize
                    /\ Attempts[i].dir < Attempts[j].dir

\* the embedded data is tried only under the default name of the net size
EmbeddedOnlyForDefaultName ==
    \A i \in 1 .. Len(Attempts) :
        Attempts[i].dir = Internal =>
            Attempts[i].name = EvalFileDefaultName(Attempts[i].netSize)

\* the recorded name changes only to the requested name, after a load_eval
\* of that name returned true
NameSetOnlyAfterTrue ==
    \A n \in NetSizes :
        currentEvalFileName[n] # initLog.atEntry[n] =>
            /\ currentEvalFileName[n] = initLog.request[n]
            /\ \E i \in AttemptsOf(n) :
                  Attempts[i].ok /\ Attempts[i].name = currentEvalFileName[n]

\* a load_eval that returned true is the last one of its net size
NothingAfterSuccess ==
    \A i, j \in 1 .. Len(Attempts) :
        (i < j /\ Attempts[i].netSize = Attempts[j].netSize) => ~Attempts[i].ok

\* C24 as stated: order of the locations, embedded data only under the
\* default name, the name recorded only after load_eval returned true,
\* nothing tried after that, and no load at all by a call of NNUE::init
\* whose requested name is the one of the call before.
C24_InitOrderAndNoReloadOfSameRequest ==
    /\ InOrderOfDirs
    /\ EmbeddedOnlyForDefaultName
    /\ NameSetOnlyAfterTrue
    /\ NothingAfterSuccess
    /\ \A n \in NetSizes : initLog.again[n] => AttemptsOf(n) = {}

\* C24: the same, except that NNUE::init loads nothing for a net size
\* exactly when the name recorded at its entry is the requested one; a
\* request whose earlier load failed is tried again in every location.
C24_InitOrderAndNoReloadOfRecordedName ==
    /\ InOrderOfDirs
    /\ EmbeddedOnlyForDefaultName
    /\ NameSetOnlyAfterTrue
    /\ NothingAfterSuccess
    /\ \A n \in NetSizes :
          initLog.atEntry[n] = initLog.request[n] => AttemptsOf(n) = {}
    /\ \A n \in NetSizes :
          (InLoop /\ initLog.atEntry[n] # initLog.request[n]) =>
              \E i \in AttemptsOf(n) :
                  Attempts[i].ok \/ Attempts[i].dir = LastDir

\* NNUE::init was called again with the request of the call before, whose
\* loads of the Small net had failed: the three locations were tried again
\* in order, and the last one succeeded
C24_Witness ==
    /\ InLoop
    /\ initLog.again[Small]
    /\ initLog.atEntry[Small] = "None"
    /\ Len(Attempts) >= 3
    /\ \E i \in 1 .. Len(Attempts) - 2 :
          /\ Attempts[i].netSize = Small /\ Attempts[i].dir = Internal /\ ~Attempts[i].ok
          /\ Attempts[i + 1].netSize = Small /\ Attempts[i + 1].dir = 2 /\ ~Attempts[i + 1].ok
          /\ Attempts[i + 2].netSize = Small /\ Attempts[i + 2].dir = LastDir /\ Attempts[i + 2].ok
    /\ currentEvalFileName[Small] = EvalFileDefaultName(Small)

==========================================================================
